---- MODULE Spec2Model ----
(***************************************************************************)
(* ELD compliance backend (trip-planner): duty-status timeline, HOS rule   *)
(* set, daily log generation and certification, violation detection,       *)
(* compliance report, supporting documents and report views, modelled      *)
(* from the Django sources under src/apps.                                 *)
(*                                                                         *)
(* Optional values (Python None) are sequences: <<>> is None, <<x>> is x.  *)
(* Timestamps are integer clock ticks (timeline) or minutes (daily logs,   *)
(* compliance report); document dates are days.                            *)
(* Decimal hours are integers in hundredths of an hour.                    *)
(***************************************************************************)
EXTENDS Integers, Sequences, FiniteSets, TLC

\* ------------------------------------------------------------------------
\* Bounds of the model
\* ------------------------------------------------------------------------
MaxCalls == 3
TicksPerDay == 2
MaxConcCalls == 2
MaxLogCalls == 3
MaxDetSteps == 3
MaxDocCalls == 10
MaxSampleCalls == 4
MaxStatusCalls == 4
MaxStatusTicks == 4

\* ------------------------------------------------------------------------
\* Domains
\* ------------------------------------------------------------------------
None == <<>>
Some(x) == <<x>>
IsNone(o) == o = <<>>
Val(o) == o[1]

Drivers == {"d1", "d2"}
DutyStatuses == {"OFF", "SB", "D", "ON"}

\* coordinates offered to the handlers: absent, in range, out of range
CoordInputs == {<<None, None>>, <<Some(45), Some(-75)>>, <<Some(91), Some(-75)>>,
                <<Some(45), Some(181)>>, <<Some(91), None>>}

VARIABLES
    now,            \* the clock read by timezone.now()
    entries,        \* table core_duty_status_entry, in insertion order
    drivers,        \* table core_driver: the cached status fields
    tracking,       \* table core_location_tracking_entry
    documents,      \* table core_eld_document
    summaries,      \* table core_daily_document_summary
    calls,          \* number of handler calls started
    last,           \* the last handler call and its outcome
    procs,          \* concurrent record_duty_status_change calls in progress
    hos,            \* the HOS fields of the driver row can_drive is asked about
    answer,         \* the last can_drive answer
    trips,          \* tables trips_trip and trips_stop
    eldLogs,        \* table eld_log, keyed by its unique (driver, log_date)
    dutyEntries,    \* table eld_duty_status_entry, in insertion order
    violations,     \* table eld_violation, in insertion order
    audits,         \* table eld_audit_log, in insertion order
    done,           \* per trip, the generate_logs_for_trip calls that succeeded
    logLast,        \* the last request on the ELD logs and its outcome
    det,            \* the log row _check_violations is run on, and its violations
    report,         \* the last get_compliance_report result
    printout,       \* the data of the last generate_printable_log response
    task            \* the process_trip_async task: its request and its outcome

clockVars == <<now, calls>>
coreVars == <<entries, drivers, tracking, documents, summaries, last, procs>>
timelineVars == <<clockVars, coreVars>>
hosVars == <<hos, answer>>
eldTables == <<eldLogs, dutyEntries, violations, audits>>
logVars == <<trips, eldTables, done, logLast>>
checkVars == <<det, report, printout, task>>
vars == <<timelineVars, hosVars, logVars, checkVars>>

\* ------------------------------------------------------------------------
\* core.models.DutyStatusEntry
\* ------------------------------------------------------------------------
\* DutyStatusEntry.save: the coordinate validation; TRUE when save succeeds
SaveValid(latitude, longitude) ==
    IF ~IsNone(latitude) /\ ~IsNone(longitude)
    THEN /\ -90 <= Val(latitude) /\ Val(latitude) <= 90
         /\ -180 <= Val(longitude) /\ Val(longitude) <= 180
    ELSE TRUE

\* DutyStatusEntry.get_day_key
GetDayKey(entry) == entry.start_time \div TicksPerDay

\* DutyStatusEntry.objects.filter(driver=driver, end_time__isnull=True)
OpenEntryIds(es, driver) ==
    {i \in DOMAIN es : es[i].driver = driver /\ IsNone(es[i].end_time)}

\* .first() under Meta.ordering = ['-start_time']: a row of the greatest
\* start_time; rows of equal start_time come in an order the database picks
FirstIds(es, ids) ==
    {i \in ids : \A j \in ids : es[j].start_time <= es[i].start_time}

\* current_entry.end_time = timezone.now(); current_entry.save()
CloseEntryMutantKeepOpen(es, i, t) == es

CloseEntry(es, i, t) == [es EXCEPT ![i].end_time = Some(t)]

\* DutyStatusEntry.objects.create(...) of record_duty_status_change
NewEntry(driver, new_status, previous, latitude, longitude, t) ==
    [driver |-> driver,
     duty_status |-> new_status,
     previous_duty_status |-> previous,
     latitude |-> latitude,
     longitude |-> longitude,
     start_time |-> t,
     end_time |-> None,
     location_trigger |-> "DUTY_CHANGE"]

\* ------------------------------------------------------------------------
\* core.models.Driver
\* ------------------------------------------------------------------------
\* Driver.update_duty_status: writes the cached status fields only
UpdateDutyStatus(ds, driver, new_status, t) ==
    [ds EXCEPT ![driver] = [current_duty_status |-> new_status,
                            last_duty_change_time |-> Some(t)]]

\* ------------------------------------------------------------------------
\* core.models.DailyDocumentSummary
\* ------------------------------------------------------------------------
DocsFor(docs, driver, date) ==
    {k \in DOMAIN docs : docs[k].driver = driver /\ docs[k].document_date = date}

UpdateSummaryMutantAtLimit(docs, driver, date) ==
    LET ids == DocsFor(docs, driver, date)
        n == Cardinality(ids)
        has_dispatch == \E k \in ids : docs[k].document_type = "DISPATCH_RECORD"
    IN [document_count |-> n,
        exceeds_limit |-> n >= 8,
        has_dispatch_record |-> has_dispatch,
        all_documents_verified |-> ~\E k \in ids : ~docs[k].is_verified,
        has_minimum_documents |-> has_dispatch /\ n >= 1]

\* DailyDocumentSummary.update_summary
UpdateSummary(docs, driver, date) ==
    LET ids == DocsFor(docs, driver, date)
        n == Cardinality(ids)
        has_dispatch == \E k \in ids : docs[k].document_type = "DISPATCH_RECORD"
    IN [document_count |-> n,
        exceeds_limit |-> n > 8,
        has_dispatch_record |-> has_dispatch,
        all_documents_verified |-> ~\E k \in ids : ~docs[k].is_verified,
        has_minimum_documents |-> has_dispatch /\ n >= 1]

\* get_or_create(driver, date) followed by update_summary()
RefreshSummary(sums, docs, driver, date) ==
    [k \in (DOMAIN sums) \cup {<<driver, date>>} |->
        IF k = <<driver, date>> THEN UpdateSummary(docs, driver, date) ELSE sums[k]]

\* ------------------------------------------------------------------------
\* Initial state: no intervals, every driver Off Duty by the field default
\* ------------------------------------------------------------------------
Call(op, driver, new_status, latitude, longitude, result) ==
    [op |-> op, driver |-> driver, new_status |-> new_status,
     latitude |-> latitude, longitude |-> longitude, result |-> result]

NoCall == Call("none", "", "", None, None, "")

Procs == {"p1", "p2"}

Idle == [pc |-> "idle", driver |-> "", new_status |-> "", current_entry |-> 0]

TimelineInit ==
    /\ now = 0
    /\ entries = <<>>
    /\ drivers = [d \in Drivers |-> [current_duty_status |-> "OFF",
                                     last_duty_change_time |-> None]]
    /\ tracking = <<>>
    /\ documents = <<>>
    /\ summaries = <<>>
    /\ calls = 0
    /\ last = NoCall
    /\ procs = [p \in Procs |-> Idle]

\* Driver field defaults: is_active = True, all hour counters 0
HOSDefault ==
    /\ hos = [is_active |-> TRUE, current_cycle_hours |-> 0,
              current_daily_drive_hours |-> 0, current_daily_duty_hours |-> 0]
    /\ answer = [op |-> "none", can_drive |-> FALSE, reason |-> ""]

\* no trip planned, no ELD log generated
LogsEmpty ==
    /\ eldLogs = <<>>
    /\ dutyEntries = <<>>
    /\ violations = <<>>
    /\ audits = <<>>
    /\ done = [t \in {"t1", "t2", "t3"} |-> 0]
    /\ logLast = [op |-> "none", trip |-> "", key |-> <<>>, result |-> "", day |-> 0]

NoTrips == trips = <<>>

\* no detector run, no compliance report asked for
ChecksIdle ==
    /\ det = <<>>
    /\ report = <<>>
    /\ printout = <<>>
    /\ task = <<>>

Init == TimelineInit /\ HOSDefault /\ LogsEmpty /\ NoTrips /\ ChecksIdle

\* ------------------------------------------------------------------------
\* ELDLocationManager.record_duty_status_change, one call at a time
\* ------------------------------------------------------------------------
\* the ids .first() may return; 0 stands for "no open entry"
CurrentEntryIds(es, driver) ==
    IF OpenEntryIds(es, driver) = {} THEN {0}
    ELSE FirstIds(es, OpenEntryIds(es, driver))

RecordDutyStatusChange(driver, new_status, latitude, longitude) ==
    /\ calls < MaxCalls
    /\ \E cur \in CurrentEntryIds(entries, driver) :
        LET ended == IF cur = 0 THEN entries ELSE CloseEntry(entries, cur, now)
            previous == IF cur = 0 THEN "" ELSE entries[cur].duty_status
            new_entry == NewEntry(driver, new_status, previous, latitude, longitude, now)
        IN IF SaveValid(latitude, longitude)
           THEN /\ entries' = Append(ended, new_entry)
                /\ drivers' = UpdateDutyStatus(drivers, driver, new_status, now)
                /\ summaries' = RefreshSummary(summaries, documents, driver, GetDayKey(new_entry))
                /\ last' = Call("record_duty_status_change", driver, new_status,
                                latitude, longitude, "ok")
           ELSE \* create() raises ValueError after the open entry was ended
                /\ entries' = ended
                /\ UNCHANGED <<drivers, summaries>>
                /\ last' = Call("record_duty_status_change", driver, new_status,
                                latitude, longitude, "ValueError")
    /\ now' = now + 1
    /\ calls' = calls + 1
    /\ UNCHANGED <<tracking, documents, procs, hosVars, logVars, checkVars>>

\* ------------------------------------------------------------------------
\* DriverViewSet.change_duty_status (POST drivers/<pk>/change_duty_status)
\* ------------------------------------------------------------------------
\* DutyStatusChangeSerializer.validate; has_location: a location text is given
SerializerValid(new_status, has_location, latitude, longitude) ==
    /\ ~(new_status = "D" /\ ~has_location)
    /\ IsNone(latitude) \/ (-90 <= Val(latitude) /\ Val(latitude) <= 90)
    /\ IsNone(longitude) \/ (-180 <= Val(longitude) /\ Val(longitude) <= 180)

ChangeDutyStatus(driver, new_status, has_location, latitude, longitude) ==
    /\ calls < MaxCalls
    /\ IF SerializerValid(new_status, has_location, latitude, longitude)
       THEN \* the ELDAuditLog row has eld_log=None: its insert fails and is swallowed
            /\ drivers' = UpdateDutyStatus(drivers, driver, new_status, now)
            /\ last' = Call("change_duty_status", driver, new_status,
                            latitude, longitude, "200")
       ELSE /\ UNCHANGED drivers
            /\ last' = Call("change_duty_status", driver, new_status,
                            latitude, longitude, "400")
    /\ now' = now + 1
    /\ calls' = calls + 1
    /\ UNCHANGED <<entries, tracking, documents, summaries, procs, hosVars, logVars, checkVars>>

\* ------------------------------------------------------------------------
\* ELDLocationManager.record_location_interval
\* ------------------------------------------------------------------------
\* filter(driver=driver, duty_status='D', end_time__isnull=True)
OpenDrivingIdsMutantAnyStatus(es, driver) == OpenEntryIds(es, driver)

OpenDrivingIds(es, driver) ==
    {i \in OpenEntryIds(es, driver) : es[i].duty_status = "D"}

SamplesOf(tr, entry_id) == {k \in DOMAIN tr : tr[k].duty_status_entry = entry_id}

\* order_by('-interval_sequence').first(), then sequence = last + 1 or 1
NextSequence(tr, entry_id) ==
    IF SamplesOf(tr, entry_id) = {} THEN 1
    ELSE 1 + (CHOOSE m \in {tr[k].interval_sequence : k \in SamplesOf(tr, entry_id)} :
                \A k \in SamplesOf(tr, entry_id) : tr[k].interval_sequence <= m)

RecordLocationInterval(driver, latitude, longitude) ==
    /\ calls < MaxCalls
    /\ IF OpenDrivingIds(entries, driver) = {}
       THEN \* logger.warning(...); return None
            /\ UNCHANGED tracking
            /\ last' = Call("record_location_interval", driver, "",
                            latitude, longitude, "None")
       ELSE \E e \in FirstIds(entries, OpenDrivingIds(entries, driver)) :
            /\ tracking' = Append(tracking,
                    [driver |-> driver, duty_status_entry |-> e,
                     latitude |-> latitude, longitude |-> longitude,
                     recorded_at |-> now,
                     interval_sequence |-> NextSequence(tracking, e)])
            /\ last' = Call("record_location_interval", driver, "",
                            latitude, longitude, "entry")
    /\ now' = now + 1
    /\ calls' = calls + 1
    /\ UNCHANGED <<entries, drivers, documents, summaries, procs, hosVars, logVars, checkVars>>

Next ==
    \/ \E d \in Drivers, s \in DutyStatuses, c \in CoordInputs :
          RecordDutyStatusChange(d, s, c[1], c[2])
    \/ \E d \in Drivers, s \in DutyStatuses, loc \in BOOLEAN :
          ChangeDutyStatus(d, s, loc, None, None)
    \/ \E d \in Drivers : RecordLocationInterval(d, Some(45), Some(-75))

Spec == Init /\ [][Next]_vars

\* ------------------------------------------------------------------------
\* ELDLocationManager.record_duty_status_change, calls running concurrently:
\* the handler takes no lock and opens no transaction, so each query is a
\* step of its own (autocommit)
\* ------------------------------------------------------------------------
\* current_entry = DutyStatusEntry.objects.filter(...).first()
FindCurrentEntry(p, driver, new_status) ==
    /\ procs[p].pc = "idle"
    /\ calls < MaxConcCalls
    /\ \E cur \in CurrentEntryIds(entries, driver) :
        procs' = [procs EXCEPT ![p] = [pc |-> "end_current", driver |-> driver,
                                       new_status |-> new_status, current_entry |-> cur]]
    /\ calls' = calls + 1
    /\ now' = now + 1
    /\ UNCHANGED <<entries, drivers, tracking, documents, summaries, last, hosVars, logVars, checkVars>>

\* if current_entry: current_entry.end_time = timezone.now(); current_entry.save()
EndCurrentEntry(p) ==
    /\ procs[p].pc = "end_current"
    /\ entries' = IF procs[p].current_entry = 0 THEN entries
                  ELSE CloseEntry(entries, procs[p].current_entry, now)
    /\ procs' = [procs EXCEPT ![p].pc = "create"]
    /\ UNCHANGED <<now, drivers, tracking, documents, summaries, calls, last, hosVars, logVars, checkVars>>

\* new_entry = DutyStatusEntry.objects.create(...)
CreateNewEntry(p) ==
    /\ procs[p].pc = "create"
    /\ LET cur == procs[p].current_entry
           previous == IF cur = 0 THEN "" ELSE entries[cur].duty_status
       IN entries' = Append(entries, NewEntry(procs[p].driver, procs[p].new_status,
                                              previous, Some(45), Some(-75), now))
    /\ procs' = [procs EXCEPT ![p].pc = "update_driver"]
    /\ UNCHANGED <<now, drivers, tracking, documents, summaries, calls, last, hosVars, logVars, checkVars>>

\* driver.update_duty_status(new_status, ...)
UpdateDriverCache(p) ==
    /\ procs[p].pc = "update_driver"
    /\ drivers' = UpdateDutyStatus(drivers, procs[p].driver, procs[p].new_status, now)
    /\ procs' = [procs EXCEPT ![p].pc = "summary"]
    /\ UNCHANGED <<now, entries, tracking, documents, summaries, calls, last, hosVars, logVars, checkVars>>

\* DailyDocumentSummary.objects.get_or_create(...); summary.update_summary()
UpdateDaySummary(p) ==
    /\ procs[p].pc = "summary"
    /\ summaries' = RefreshSummary(summaries, documents, procs[p].driver, now \div TicksPerDay)
    /\ procs' = [procs EXCEPT ![p] = Idle]
    /\ UNCHANGED <<now, entries, drivers, tracking, documents, calls, last, hosVars, logVars, checkVars>>

ConcNext ==
    \/ \E p \in Procs, d \in Drivers, s \in DutyStatuses : FindCurrentEntry(p, d, s)
    \/ \E p \in Procs : EndCurrentEntry(p)
    \/ \E p \in Procs : CreateNewEntry(p)
    \/ \E p \in Procs : UpdateDriverCache(p)
    \/ \E p \in Procs : UpdateDaySummary(p)

SpecConc == Init /\ [][ConcNext]_vars

\* ------------------------------------------------------------------------
\* HOS rule set: Driver.can_drive and HOSComplianceService.can_drive
\* ------------------------------------------------------------------------
\* DecimalField(decimal_places=2): hours are kept in hundredths
Hundredths == 100
MaxCycleHours == 70
MaxDailyDriveHours == 11
MaxDailyDutyHours == 14

CycleInputs == {0, 6999, 7000, 7200}
DriveInputs == {0, 1099, 1100, 1150}
DutyInputs == {0, 1399, 1400, 1500}

Answer(op, can_drive, reason) == [op |-> op, can_drive |-> can_drive, reason |-> reason]

\* Driver.can_drive
DriverCanDriveMutantStrict(d) ==
    IF ~d.is_active THEN <<FALSE, "Driver is inactive">>
    ELSE IF d.current_cycle_hours > MaxCycleHours * Hundredths
    THEN <<FALSE, "70-hour cycle limit reached">>
    ELSE IF d.current_daily_drive_hours > MaxDailyDriveHours * Hundredths
    THEN <<FALSE, "11-hour daily drive limit reached">>
    ELSE IF d.current_daily_duty_hours > MaxDailyDutyHours * Hundredths
    THEN <<FALSE, "14-hour daily duty limit reached">>
    ELSE <<TRUE, "Can drive">>

DriverCanDrive(d) ==
    IF ~d.is_active THEN <<FALSE, "Driver is inactive">>
    ELSE IF d.current_cycle_hours >= MaxCycleHours * Hundredths
    THEN <<FALSE, "70-hour cycle limit reached">>
    ELSE IF d.current_daily_drive_hours >= MaxDailyDriveHours * Hundredths
    THEN <<FALSE, "11-hour daily drive limit reached">>
    ELSE IF d.current_daily_duty_hours >= MaxDailyDutyHours * Hundredths
    THEN <<FALSE, "14-hour daily duty limit reached">>
    ELSE <<TRUE, "Can drive">>

\* HOSComplianceService.can_drive: no is_active argument
ServiceCanDrive(current_cycle_hours, daily_drive_hours, daily_duty_hours) ==
    IF current_cycle_hours >= MaxCycleHours * Hundredths
    THEN <<FALSE, "70-hour cycle limit reached">>
    ELSE IF daily_drive_hours >= MaxDailyDriveHours * Hundredths
    THEN <<FALSE, "11-hour daily drive limit reached">>
    ELSE IF daily_duty_hours >= MaxDailyDutyHours * Hundredths
    THEN <<FALSE, "14-hour daily duty limit reached">>
    ELSE <<TRUE, "Can drive">>

\* a driver row with any combination of the HOS fields
HOSInit ==
    /\ hos \in [is_active : BOOLEAN, current_cycle_hours : CycleInputs,
                 current_daily_drive_hours : DriveInputs,
                 current_daily_duty_hours : DutyInputs]
    /\ answer = [op |-> "none", can_drive |-> FALSE, reason |-> ""]

\* driver.can_drive(), as DriverViewSet.hos_status calls it
AskDriverCanDrive ==
    /\ answer' = Answer("Driver.can_drive", DriverCanDrive(hos)[1], DriverCanDrive(hos)[2])
    /\ UNCHANGED <<hos, timelineVars, logVars, checkVars>>

\* HOSComplianceService.can_drive(cycle, drive, duty)
AskServiceCanDrive ==
    /\ LET r == ServiceCanDrive(hos.current_cycle_hours, hos.current_daily_drive_hours,
                                hos.current_daily_duty_hours)
       IN answer' = Answer("HOSComplianceService.can_drive", r[1], r[2])
    /\ UNCHANGED <<hos, timelineVars, logVars, checkVars>>

HOSNext == AskDriverCanDrive \/ AskServiceCanDrive

InitHOS == TimelineInit /\ HOSInit /\ LogsEmpty /\ NoTrips /\ ChecksIdle

SpecHOS == InitHOS /\ [][HOSNext]_vars

\* ------------------------------------------------------------------------
\* Trips and stops (trips.models.Trip, trips.models.Stop); times in minutes
\* ------------------------------------------------------------------------
MinutesPerDay == 24 * 60

Trips == {"t1", "t2", "t3"}

\* t1 and t2 are trips of the same driver
TripDriver == [t1 |-> "d1", t2 |-> "d1", t3 |-> "d2"]
TripCycleHours == [t1 |-> 0, t2 |-> 7000, t3 |-> 7200]

Stop(stop_type, arrival, departure, duration) ==
    [stop_type |-> stop_type,
     estimated_arrival_time |-> arrival,
     estimated_departure_time |-> departure,
     duration_minutes |-> duration]

\* the stop lists a trip may have, in sequence_order
OneDayPlan ==
    <<Stop("pickup", 480, 540, 60), Stop("fuel", 700, 720, 20),
      Stop("dropoff", 900, 960, 60)>>

TwoDayPlan ==
    <<Stop("pickup", 480, 540, 60), Stop("rest", 1200, 1800, 600),
      Stop("dropoff", 2040, 2100, 60)>>

LongDayPlan ==
    <<Stop("fuel", 1440, 1470, 30), Stop("mandatory_break", 1500, 1530, 30),
      Stop("dropoff", 2280, 2340, 60)>>

StopPlans == {<<>>, OneDayPlan, TwoDayPlan, LongDayPlan}

\* estimated_arrival_time.date()
DateOf(time) == time \div MinutesPerDay

\* ------------------------------------------------------------------------
\* eld.services.ELDLogService
\* ------------------------------------------------------------------------
\* _group_stops_by_date: the dates in order of first occurrence
RECURSIVE DatesFrom(_, _, _)
DatesFrom(stops, i, seen) ==
    IF i > Len(stops) THEN <<>>
    ELSE LET d == DateOf(stops[i].estimated_arrival_time)
         IN IF d \in seen THEN DatesFrom(stops, i + 1, seen)
            ELSE <<d>> \o DatesFrom(stops, i + 1, seen \cup {d})

GroupDates(stops) == DatesFrom(stops, 1, {})

\* _group_stops_by_date: the stops of one date, in their order
RECURSIVE StopsOn(_, _)
StopsOn(stops, date) ==
    IF stops = <<>> THEN <<>>
    ELSE (IF DateOf(Head(stops).estimated_arrival_time) = date THEN <<Head(stops)>> ELSE <<>>)
         \o StopsOn(Tail(stops), date)

DutyEntry(key, duty_status, start_time, end_time, duration) ==
    [eld_log |-> key, duty_status |-> duty_status, start_time |-> start_time,
     end_time |-> end_time, duration_minutes |-> duration]

StopEntriesMutantOverEight(key, stops, i) ==
    LET stop == stops[i]
        arrival == stop.estimated_arrival_time
        departure == stop.estimated_departure_time
        pre_trip ==
            IF stop.stop_type \in {"pickup", "dropoff"}
            THEN <<DutyEntry(key, "ON", arrival - 15, Some(arrival), 15)>>
            ELSE <<>>
        activity ==
            IF stop.stop_type \in {"pickup", "dropoff", "fuel"}
            THEN <<DutyEntry(key, "ON", arrival, Some(departure), stop.duration_minutes)>>
            ELSE IF stop.stop_type \in {"rest", "mandatory_break"}
            THEN <<DutyEntry(key, IF stop.duration_minutes > 480 THEN "SB" ELSE "OFF",
                             arrival, Some(departure), stop.duration_minutes)>>
            ELSE <<>>
        driving ==
            IF i + 1 <= Len(stops)
            THEN LET drive_end == stops[i + 1].estimated_arrival_time
                     drive_minutes == drive_end - departure
                 IN IF drive_minutes > 0
                    THEN <<DutyEntry(key, "D", departure, Some(drive_end), drive_minutes)>>
                    ELSE <<>>
            ELSE <<>>
    IN pre_trip \o activity \o driving

\* _generate_duty_entries: the entries of stop i of the day's stops
StopEntries(key, stops, i) ==
    LET stop == stops[i]
        arrival == stop.estimated_arrival_time
        departure == stop.estimated_departure_time
        pre_trip ==
            IF stop.stop_type \in {"pickup", "dropoff"}
            THEN <<DutyEntry(key, "ON", arrival - 15, Some(arrival), 15)>>
            ELSE <<>>
        activity ==
            IF stop.stop_type \in {"pickup", "dropoff", "fuel"}
            THEN <<DutyEntry(key, "ON", arrival, Some(departure), stop.duration_minutes)>>
            ELSE IF stop.stop_type \in {"rest", "mandatory_break"}
            THEN <<DutyEntry(key, IF stop.duration_minutes >= 480 THEN "SB" ELSE "OFF",
                             arrival, Some(departure), stop.duration_minutes)>>
            ELSE <<>>
        driving ==
            IF i + 1 <= Len(stops)
            THEN LET drive_end == stops[i + 1].estimated_arrival_time
                     drive_minutes == drive_end - departure
                 IN IF drive_minutes > 0
                    THEN <<DutyEntry(key, "D", departure, Some(drive_end), drive_minutes)>>
                    ELSE <<>>
            ELSE <<>>
    IN pre_trip \o activity \o driving

RECURSIVE AllStopEntries(_, _, _)
AllStopEntries(key, stops, i) ==
    IF i > Len(stops) THEN <<>>
    ELSE StopEntries(key, stops, i) \o AllStopEntries(key, stops, i + 1)

\* _generate_duty_entries: the leading Off Duty entry has no end_time and
\* the default duration_minutes
GenerateDutyEntries(key, log_date, stops) ==
    (IF stops = <<>> \/ stops[1].estimated_arrival_time % MinutesPerDay # 0
     THEN <<DutyEntry(key, "OFF", log_date * MinutesPerDay, None, 0)>>
     ELSE <<>>)
    \o AllStopEntries(key, stops, 1)

\* _calculate_daily_totals: minutes by status, from duration_minutes
RECURSIVE SumMinutes(_, _)
SumMinutes(es, statuses) ==
    IF es = <<>> THEN 0
    ELSE (IF Head(es).duty_status \in statuses THEN Head(es).duration_minutes ELSE 0)
         + SumMinutes(Tail(es), statuses)

\* Decimal(minutes / 60) stored in DecimalField(decimal_places=2)
HoursStored(minutes) == (minutes * 100 + 30) \div 60

\* _check_violations: duration_minutes = int((float(hours) - limit) * 60)
\* with hours = Decimal(minutes / 60).  The binary quotient is inexact; for
\* the minutes over the limit listed here (every total up to 24 hours) the
\* product falls just below the whole number and int() drops a minute.
DriveShort ==
    {2, 4, 6, 8, 10, 12, 14, 17, 19, 21, 23, 25, 27, 29, 32, 34, 36, 38, 40,
     42, 44, 47, 49, 51, 53, 55, 57, 59, 62, 64, 66, 68, 70, 72, 74, 79, 81,
     83, 85, 87, 89, 94, 96, 98, 100, 102, 104, 109, 111, 113, 115, 117, 119,
     124, 126, 128, 130, 132, 134, 141, 143, 145, 147, 149, 156, 158, 160, 162,
     164, 171, 173, 175, 177, 179, 186, 188, 190, 192, 194, 201, 203, 205, 207,
     209, 216, 218, 220, 222, 224, 231, 233, 235, 237, 239, 246, 248, 250, 252,
     254, 265, 267, 269, 280, 282, 284, 295, 297, 299, 301, 305, 309, 312, 313,
     316, 320, 324, 327, 328, 331, 335, 339, 342, 343, 346, 350, 354, 357, 358,
     361, 365, 369, 372, 373, 376, 380, 384, 387, 388, 391, 395, 399, 402, 403,
     406, 410, 414, 417, 418, 421, 425, 429, 432, 433, 436, 440, 444, 447, 448,
     451, 455, 459, 462, 463, 466, 470, 474, 477, 478, 481, 485, 489, 492, 493,
     496, 500, 504, 507, 508, 511, 515, 519, 523, 530, 534, 538, 545, 549, 553,
     560, 564, 568, 575, 579, 583, 590, 594, 598, 605, 609, 613, 620, 624, 628,
     635, 639, 643, 650, 654, 658, 665, 669, 673, 680, 684, 688, 695, 699, 703,
     710, 714, 718, 725, 729, 733, 740, 744, 748, 755, 759, 763, 770, 774, 778}

DutyShort ==
    {2, 4, 6, 8, 10, 12, 14, 17, 19, 21, 23, 25, 27, 29, 32, 34, 36, 38, 40,
     42, 44, 47, 49, 51, 53, 55, 57, 59, 62, 64, 66, 68, 70, 72, 74, 79, 81,
     83, 85, 87, 89, 94, 96, 98, 100, 102, 104, 109, 111, 113, 115, 117, 119,
     121, 124, 125, 128, 129, 132, 133, 136, 140, 143, 144, 147, 148, 151, 155,
     158, 159, 162, 163, 166, 170, 173, 174, 177, 178, 181, 185, 188, 189, 192,
     193, 196, 200, 203, 204, 207, 208, 211, 215, 218, 219, 222, 223, 226, 230,
     233, 234, 237, 238, 241, 245, 248, 249, 252, 253, 256, 260, 264, 267, 268,
     271, 275, 279, 282, 283, 286, 290, 294, 297, 298, 301, 305, 309, 312, 313,
     316, 320, 324, 327, 328, 331, 335, 339, 342, 343, 346, 350, 354, 357, 358,
     361, 365, 369, 372, 373, 376, 380, 384, 387, 388, 391, 395, 399, 402, 403,
     406, 410, 414, 417, 418, 421, 425, 429, 432, 433, 436, 440, 444, 447, 448,
     451, 455, 459, 462, 463, 466, 470, 474, 477, 478, 481, 485, 489, 492, 493,
     496, 500, 504, 507, 508, 511, 515, 519, 523, 530, 534, 538, 545, 549, 553,
     560, 564, 568, 575, 579, 583, 590, 594, 598}

FloatMinutesOver(minutes, limit, short) ==
    LET over == minutes - limit * 60
    IN IF over \in short THEN over - 1 ELSE over

\* the same expression on cycle_hours_used, a two-place decimal held in
\* hundredths (every value from 70.01 to 99.99)
FloatCycleMinutesOver(cycle_hours_used) ==
    LET over == cycle_hours_used - 70 * 100
        exact == (over * 60) \div 100
    IN IF over % 25 \in {5, 10} THEN exact - 1 ELSE exact

Violation(key, violation_type, severity, duration) ==
    [eld_log |-> key, violation_type |-> violation_type, severity |-> severity,
     duration_minutes |-> duration]

\* _check_violations: the rows it builds, from the totals held in memory
CheckViolations(key, drive_minutes, on_duty_minutes, cycle_hours_used) ==
    (IF drive_minutes > 11 * 60
     THEN <<Violation(key, "DAILY_DRIVE_EXCEEDED", "HIGH",
                      FloatMinutesOver(drive_minutes, 11, DriveShort))>>
     ELSE <<>>)
    \o (IF on_duty_minutes > 14 * 60
        THEN <<Violation(key, "DAILY_DUTY_EXCEEDED", "HIGH",
                         FloatMinutesOver(on_duty_minutes, 14, DutyShort))>>
        ELSE <<>>)
    \o (IF cycle_hours_used > 70 * 100
        THEN <<Violation(key, "CYCLE_EXCEEDED", "CRITICAL",
                         FloatCycleMinutesOver(cycle_hours_used))>>
        ELSE <<>>)

\* _check_violations, `if violations`: the log is flagged and its summary
\* joins the descriptions of the rows just built (a description is stood
\* for by its violation type); with no row the log is not written
SaveViolationsMutantNoFlag(log, vs) == log

SaveViolations(log, vs) ==
    IF vs # <<>>
    THEN [log EXCEPT !.is_compliant = FALSE,
                     !.violation_summary = [k \in DOMAIN vs |-> vs[k].violation_type]]
    ELSE log

Audit(key, action) == [eld_log |-> key, action |-> action]

\* _generate_daily_log, the branch `if created`
BuildDailyLog(db, t, log_date, stops) ==
    LET key == <<trips[t].driver, log_date>>
        es == GenerateDutyEntries(key, log_date, stops)
        drive == SumMinutes(es, {"D"})
        on_duty == SumMinutes(es, {"D", "ON"})
        off_duty == SumMinutes(es, {"OFF", "SB"})
        vs == CheckViolations(key, drive, on_duty, trips[t].current_cycle_hours)
        log == [trip |-> t,
                total_drive_time |-> HoursStored(drive),
                total_on_duty_time |-> HoursStored(on_duty),
                total_off_duty_time |-> HoursStored(off_duty),
                cycle_hours_used |-> trips[t].current_cycle_hours,
                is_compliant |-> TRUE,
                violation_summary |-> <<>>,
                is_certified |-> FALSE,
                certified_at |-> None]
    IN [db EXCEPT !.logs = key :> SaveViolations(log, vs) @@ db.logs,
                  !.entries = db.entries \o es,
                  !.violations = db.violations \o vs,
                  !.audits = Append(db.audits, Audit(key, "CREATED"))]

\* _generate_daily_log: get_or_create looks the log up by trip, driver,
\* vehicle and log_date, while eld_log is unique on (driver, log_date)
GenerateDailyLogMutantRebuild(db, t, log_date, stops) ==
    LET key == <<trips[t].driver, log_date>>
    IN IF key \in DOMAIN db.logs /\ db.logs[key].trip # t
       THEN [db EXCEPT !.failed = "IntegrityError"]
       ELSE BuildDailyLog(db, t, log_date, stops)

GenerateDailyLog(db, t, log_date, stops) ==
    LET key == <<trips[t].driver, log_date>>
    IN IF key \in DOMAIN db.logs /\ db.logs[key].trip = t
       THEN db
       ELSE IF key \in DOMAIN db.logs
       THEN [db EXCEPT !.failed = "IntegrityError"]
       ELSE BuildDailyLog(db, t, log_date, stops)

\* generate_logs_for_trip: the loop over daily_logs.items()
RECURSIVE GenerateDays(_, _, _, _)
GenerateDays(db, t, dates, i) ==
    IF i > Len(dates) THEN db
    ELSE LET r == GenerateDailyLog(db, t, dates[i], StopsOn(trips[t].stops, dates[i]))
         IN IF r.failed # "" THEN [r EXCEPT !.day = i]
            ELSE GenerateDays(r, t, dates, i + 1)

\* @transaction.atomic: an exception leaving the block rolls its writes back
AtomicMutantNoRollback(before, after) == after

Atomic(before, after) ==
    IF after.failed # ""
    THEN [before EXCEPT !.failed = after.failed, !.day = after.day]
    ELSE after

LogRequest(op, t, key, result, day) ==
    [op |-> op, trip |-> t, key |-> key, result |-> result, day |-> day]

\* ELDLogService.generate_logs_for_trip (GET trips/<pk>/eld_logs)
GenerateLogsForTrip(t) ==
    /\ calls < MaxLogCalls
    /\ LET before == [logs |-> eldLogs, entries |-> dutyEntries,
                      violations |-> violations, audits |-> audits,
                      failed |-> "", day |-> 0]
           stops == trips[t].stops
           after == IF stops = <<>>
                    THEN [before EXCEPT !.failed = "ValueError"]
                    ELSE GenerateDays(before, t, GroupDates(stops), 1)
           final == Atomic(before, after)
       IN /\ eldLogs' = final.logs
          /\ dutyEntries' = final.entries
          /\ violations' = final.violations
          /\ audits' = final.audits
          /\ done' = IF final.failed = "" THEN [done EXCEPT ![t] = @ + 1] ELSE done
          /\ logLast' = LogRequest("generate_logs_for_trip", t, <<>>,
                                   IF final.failed = "" THEN "ok" ELSE final.failed,
                                   final.day)
    /\ calls' = calls + 1
    /\ now' = now + 1
    /\ UNCHANGED <<trips, coreVars, hosVars, checkVars>>

\* ------------------------------------------------------------------------
\* eld.views.ELDLogViewSet: certify and uncertify
\* ------------------------------------------------------------------------
LogKeys == Drivers \X {0, 1}

CertifyMutantNoGuard(key) ==
    /\ calls < MaxLogCalls
    /\ IF key \notin DOMAIN eldLogs
       THEN /\ logLast' = LogRequest("certify", "", key, "404", 0)
            /\ UNCHANGED <<eldLogs, audits>>
       ELSE /\ eldLogs' = [eldLogs EXCEPT ![key].is_certified = TRUE,
                                          ![key].certified_at = Some(now)]
            /\ audits' = Append(audits, Audit(key, "CERTIFIED"))
            /\ logLast' = LogRequest("certify", "", key, "200", 0)
    /\ calls' = calls + 1
    /\ now' = now + 1
    /\ UNCHANGED <<trips, dutyEntries, violations, done, coreVars, hosVars, checkVars>>

Certify(key) ==
    /\ calls < MaxLogCalls
    /\ IF key \notin DOMAIN eldLogs
       THEN \* get_object() raises Http404
            /\ logLast' = LogRequest("certify", "", key, "404", 0)
            /\ UNCHANGED <<eldLogs, audits>>
       ELSE IF eldLogs[key].is_certified
       THEN /\ logLast' = LogRequest("certify", "", key, "400", 0)
            /\ UNCHANGED <<eldLogs, audits>>
       ELSE /\ eldLogs' = [eldLogs EXCEPT ![key].is_certified = TRUE,
                                          ![key].certified_at = Some(now)]
            /\ audits' = Append(audits, Audit(key, "CERTIFIED"))
            /\ logLast' = LogRequest("certify", "", key, "200", 0)
    /\ calls' = calls + 1
    /\ now' = now + 1
    /\ UNCHANGED <<trips, dutyEntries, violations, done, coreVars, hosVars, checkVars>>

Uncertify(key) ==
    /\ calls < MaxLogCalls
    /\ IF key \notin DOMAIN eldLogs
       THEN /\ logLast' = LogRequest("uncertify", "", key, "404", 0)
            /\ UNCHANGED <<eldLogs, audits>>
       ELSE IF ~eldLogs[key].is_certified
       THEN /\ logLast' = LogRequest("uncertify", "", key, "400", 0)
            /\ UNCHANGED <<eldLogs, audits>>
       ELSE /\ eldLogs' = [eldLogs EXCEPT ![key].is_certified = FALSE,
                                          ![key].certified_at = None]
            /\ audits' = Append(audits, Audit(key, "UNCERTIFIED"))
            /\ logLast' = LogRequest("uncertify", "", key, "200", 0)
    /\ calls' = calls + 1
    /\ now' = now + 1
    /\ UNCHANGED <<trips, dutyEntries, violations, done, coreVars, hosVars, checkVars>>

\* the trips and their stops exist before any log is asked for
TripsInit ==
    \E plan \in [Trips -> StopPlans] :
        trips = [t \in Trips |-> [driver |-> TripDriver[t],
                                  current_cycle_hours |-> TripCycleHours[t],
                                  stops |-> plan[t]]]

LogsNext ==
    \/ \E t \in Trips : GenerateLogsForTrip(t)
    \/ \E key \in LogKeys : Certify(key)
    \/ \E key \in LogKeys : Uncertify(key)

InitLogs == TimelineInit /\ HOSDefault /\ LogsEmpty /\ TripsInit /\ ChecksIdle

SpecLogs == InitLogs /\ [][LogsNext]_vars

\* ------------------------------------------------------------------------
\* ELDLogService._check_violations on one log row
\* ------------------------------------------------------------------------
\* daily totals in minutes (drive, on duty; driving counts as on duty) and
\* cycle hours in hundredths, at, just over and well over the limits
DetTotals == {<<600, 800>>, <<660, 840>>, <<662, 842>>, <<690, 840>>,
              <<600, 870>>, <<690, 870>>}
DetCycleInputs == {0, 7000, 7005, 7200}

\* a log row as _generate_daily_log holds it after _calculate_daily_totals:
\* compliant by default, no summary, no violation row
InitDetect ==
    /\ TimelineInit /\ HOSDefault /\ LogsEmpty /\ NoTrips
    /\ report = <<>> /\ printout = <<>> /\ task = <<>>
    /\ \E tot \in DetTotals, cycle \in DetCycleInputs :
         det = [total_drive_minutes |-> tot[1], total_on_duty_minutes |-> tot[2],
                cycle_hours_used |-> cycle, is_compliant |-> TRUE,
                violation_summary |-> <<>>, rows |-> <<>>, steps |-> 0,
                last |-> "none"]

\* _check_violations(eld_log): bulk_create of the rows built, then the flag
RunCheckViolations ==
    /\ det.steps < MaxDetSteps
    /\ LET vs == CheckViolations("log", det.total_drive_minutes,
                                 det.total_on_duty_minutes, det.cycle_hours_used)
       IN det' = [SaveViolations(det, vs) EXCEPT !.rows = @ \o vs,
                                                 !.steps = @ + 1,
                                                 !.last = "_check_violations"]
    /\ UNCHANGED <<timelineVars, hosVars, logVars, report, printout, task>>

\* _calculate_daily_totals(eld_log) after the log's intervals were edited:
\* only the three totals are assigned and saved
CalculateDailyTotals(drive_minutes, on_duty_minutes) ==
    /\ det.steps < MaxDetSteps
    /\ det' = [det EXCEPT !.total_drive_minutes = drive_minutes,
                          !.total_on_duty_minutes = on_duty_minutes,
                          !.steps = @ + 1,
                          !.last = "_calculate_daily_totals"]
    /\ UNCHANGED <<timelineVars, hosVars, logVars, report, printout, task>>

DetectNext ==
    \/ RunCheckViolations
    \/ \E tot \in DetTotals : CalculateDailyTotals(tot[1], tot[2])

SpecDetect == InitDetect /\ [][DetectNext]_vars

\* ------------------------------------------------------------------------
\* core.models.ELDLocationManager.get_compliance_report; times in minutes
\* ------------------------------------------------------------------------
\* DutyStatusEntry.is_location_required
IsLocationRequired(entry) ==
    \/ entry.location_trigger = "DUTY_CHANGE"
    \/ (entry.location_trigger = "INTERVAL" /\ entry.duty_status = "D")
    \/ entry.location_trigger \in {"POWER_ON", "POWER_OFF"}

\* `not entry.latitude`: None and a zero coordinate are both falsy
Falsy(coordinate) == coordinate = None \/ Val(coordinate) = 0

\* DutyStatusEntry.calculate_duration, t being timezone.now()
CalculateDuration(entry, t) ==
    IF entry.end_time # None THEN Val(entry.end_time) - entry.start_time
    ELSE t - entry.start_time

Issue(type, entry, date, expected, actual) ==
    [type |-> type, entry |-> entry, date |-> date,
     expected |-> expected, actual |-> actual]

\* the compliance_issues list, as a set
ComplianceIssues(es, tr, sums, driver, start_date, end_date, t) ==
    LET duty_entries == {i \in DOMAIN es :
                            /\ es[i].driver = driver
                            /\ start_date <= es[i].start_time
                            /\ es[i].start_time <= end_date}
        location_intervals == {k \in DOMAIN tr :
                                  /\ tr[k].driver = driver
                                  /\ start_date <= tr[k].recorded_at
                                  /\ tr[k].recorded_at <= end_date}
        document_summaries == {k \in DOMAIN sums :
                                  /\ k[1] = driver
                                  /\ DateOf(start_date) <= k[2]
                                  /\ k[2] <= DateOf(end_date)}
        intervals_count(i) ==
            Cardinality({k \in location_intervals : tr[k].duty_status_entry = i})
        \* total_seconds() > 3600, then total_seconds() // 3600
        expected_intervals(i) == CalculateDuration(es[i], t) \div 60
    IN {Issue("missing_duty_location", i, -1, 0, 0) : i \in
            {j \in duty_entries :
                /\ IsLocationRequired(es[j])
                /\ (Falsy(es[j].latitude) \/ Falsy(es[j].longitude))}}
       \cup
       {Issue("missing_intervals", i, -1, expected_intervals(i), intervals_count(i)) :
           i \in {j \in duty_entries :
                    /\ es[j].duty_status = "D"
                    /\ CalculateDuration(es[j], t) > 60
                    /\ intervals_count(j) < expected_intervals(j)}}
       \cup
       {Issue("insufficient_documents", 0, k[2], 0, sums[k].document_count) :
           k \in {q \in document_summaries : ~sums[q].has_minimum_documents}}
       \cup
       {Issue("excessive_documents", 0, k[2], 0, sums[k].document_count) :
           k \in {q \in document_summaries : sums[q].exceeds_limit}}

GetComplianceReport(driver, start_date, end_date) ==
    /\ report' = [driver |-> driver, start_date |-> start_date,
                  end_date |-> end_date,
                  compliance_issues |->
                     ComplianceIssues(entries, tracking, summaries, driver,
                                      start_date, end_date, now),
                  is_compliant |->
                     ComplianceIssues(entries, tracking, summaries, driver,
                                      start_date, end_date, now) = {}]
    /\ UNCHANGED <<timelineVars, hosVars, logVars, det, printout, task>>

\* a Driving entry of driver d1 starting at minute 10, closed or still open,
\* recorded on any trigger, with 0 to 2 location samples recorded an hour
\* apart while it was open
ReportDurations == {59, 60, 61, 120, 121}
ReportCoords == {<<None, None>>, <<Some(0), Some(-75)>>, <<Some(45), Some(-75)>>}
ReportRanges == {<<0, 2 * MinutesPerDay>>, <<11, 2 * MinutesPerDay>>}
ReportTriggers == {"DUTY_CHANGE", "INTERVAL", "POWER_ON", "POWER_OFF", "MANUAL"}

InitReport ==
    /\ HOSDefault /\ LogsEmpty /\ NoTrips /\ ChecksIdle
    /\ drivers = [d \in Drivers |-> [current_duty_status |-> "OFF",
                                     last_duty_change_time |-> None]]
    /\ documents = <<>>
    /\ summaries = <<>>
    /\ calls = 0
    /\ last = NoCall
    /\ procs = [p \in Procs |-> Idle]
    /\ \E duration \in ReportDurations, c \in ReportCoords,
          n \in 0..2, closed \in BOOLEAN, trigger \in ReportTriggers :
         /\ 60 * n <= duration
         /\ now = 10 + duration
         /\ entries = <<[NewEntry("d1", "D", "ON", c[1], c[2], 10)
                           EXCEPT !.end_time = IF closed THEN Some(10 + duration)
                                               ELSE None,
                                  !.location_trigger = trigger]>>
         /\ tracking = [k \in 1..n |->
                          [driver |-> "d1", duty_status_entry |-> 1,
                           latitude |-> Some(45), longitude |-> Some(-75),
                           recorded_at |-> 10 + 60 * k,
                           interval_sequence |-> k]]

ReportNext ==
    \E d \in Drivers, r \in ReportRanges : GetComplianceReport(d, r[1], r[2])

SpecReport == InitReport /\ [][ReportNext]_vars

\* ------------------------------------------------------------------------
\* core.models.ELDDocumentManager and the documents admin; dates in days
\* ------------------------------------------------------------------------
Document(driver, document_type, document_date) ==
    [driver |-> driver, document_type |-> document_type,
     document_date |-> document_date, is_verified |-> FALSE]

\* ELDDocumentManager.upload_document: create, get_or_create, update_summary
UploadDocument(driver, document_type, document_date) ==
    /\ calls < MaxDocCalls
    /\ documents' = Append(documents, Document(driver, document_type, document_date))
    /\ summaries' = RefreshSummary(summaries, documents', driver, document_date)
    /\ last' = Call("upload_document", driver, document_type, None, None, "document")
    /\ calls' = calls + 1
    /\ UNCHANGED <<now, entries, drivers, tracking, procs, hosVars, logVars, checkVars>>

\* ELDDocumentAdmin (a plain ModelAdmin): deleting a document deletes the
\* row; no signal or override refreshes the day's summary
DeleteDocument(k) ==
    /\ calls < MaxDocCalls
    /\ k \in DOMAIN documents
    /\ documents' = [i \in 1..(Len(documents) - 1) |->
                        IF i < k THEN documents[i] ELSE documents[i + 1]]
    /\ last' = Call("delete_document", documents[k].driver,
                    documents[k].document_type, None, None, "deleted")
    /\ calls' = calls + 1
    /\ UNCHANGED <<now, entries, drivers, tracking, summaries, procs,
                   hosVars, logVars, checkVars>>

\* get_compliance_report over the two days documents are uploaded for
ReportOnDocuments(driver) ==
    /\ calls < MaxDocCalls
    /\ report' = [driver |-> driver, start_date |-> 0,
                  end_date |-> 2 * MinutesPerDay - 1,
                  compliance_issues |->
                     ComplianceIssues(entries, tracking, summaries, driver,
                                      0, 2 * MinutesPerDay - 1, now),
                  is_compliant |->
                     ComplianceIssues(entries, tracking, summaries, driver,
                                      0, 2 * MinutesPerDay - 1, now) = {}]
    /\ last' = Call("get_compliance_report", driver, "", None, None, "report")
    /\ calls' = calls + 1
    /\ UNCHANGED <<now, entries, drivers, tracking, documents, summaries, procs,
                   hosVars, logVars, det, printout, task>>

DocumentTypes == {"DISPATCH_RECORD", "FUEL_RECEIPT"}

\* before the calls followed here, driver d1 has either no document or one
\* fuel receipt uploaded for day 1
InitDocs ==
    /\ HOSDefault /\ LogsEmpty /\ NoTrips /\ ChecksIdle
    /\ now = 0
    /\ entries = <<>>
    /\ drivers = [d \in Drivers |-> [current_duty_status |-> "OFF",
                                     last_duty_change_time |-> None]]
    /\ tracking = <<>>
    /\ calls = 0
    /\ last = NoCall
    /\ procs = [p \in Procs |-> Idle]
    /\ \E docs \in {<<>>, <<Document("d1", "FUEL_RECEIPT", 1)>>} :
         /\ documents = docs
         /\ summaries = IF docs = <<>> THEN <<>>
                        ELSE RefreshSummary(<<>>, docs, "d1", 1)

DocsNext ==
    \/ \E t \in DocumentTypes : UploadDocument("d1", t, 0)
    \/ \E k \in 1..MaxDocCalls : DeleteDocument(k)
    \/ ReportOnDocuments("d1")

SpecDocs == InitDocs /\ [][DocsNext]_vars

\* ------------------------------------------------------------------------
\* eld.views: daily_report, trip_report, generate_printable_log
\* ------------------------------------------------------------------------
\* ids asked for: the trips and one id no trip has
TripIds == Trips \cup {"t9"}
OutputFormats == {"printable", "inspection", "csv"}

\* daily_report: get_object_or_404 is inside the try block, and Http404 is
\* an Exception, so it reaches `except Exception` like any other failure
DailyReport(key) ==
    /\ logLast' = LogRequest("daily_report", "", key,
                             IF key \in DOMAIN eldLogs THEN "200" ELSE "500", 0)
    /\ UNCHANGED <<trips, eldTables, done, timelineVars, hosVars, checkVars>>

\* trip_report: the same structure
TripReport(t) ==
    /\ logLast' = LogRequest("trip_report", t, <<>>,
                             IF t \in DOMAIN trips THEN "200" ELSE "500", 0)
    /\ UNCHANGED <<trips, eldTables, done, timelineVars, hosVars, checkVars>>

\* ------------------------------------------------------------------------
\* eld.services.ELDPrintService: the graph grid
\* ------------------------------------------------------------------------
GridCells == 1440

\* datetime.time() with `from datetime import datetime`: the instance method
\* time of the class datetime called without an instance raises TypeError
DatetimeTime == "TypeError"

\* _get_duty_status_for_minute: the timestamp of a minute of the day
TargetTime(log_date, minute_of_day) ==
    IF DatetimeTime = "TypeError" THEN "TypeError"
    ELSE log_date * MinutesPerDay + DatetimeTime + minute_of_day

\* _get_duty_status_for_minute: the first entry in start_time order that
\* started at or before the minute and is open or ends after it
GetDutyStatusForMinute(minute_of_day, duty_entries, log_date) ==
    LET target_time == TargetTime(log_date, minute_of_day)
    IN IF target_time = "TypeError" THEN "TypeError"
       ELSE LET covering ==
                    {j \in DOMAIN duty_entries :
                        /\ duty_entries[j].start_time <= target_time
                        /\ \/ duty_entries[j].end_time = None
                           \/ Val(duty_entries[j].end_time) > target_time}
                first == CHOOSE j \in covering :
                            \A k \in covering :
                               \/ duty_entries[j].start_time < duty_entries[k].start_time
                               \/ /\ duty_entries[j].start_time = duty_entries[k].start_time
                                  /\ j <= k
            IN IF covering = {} THEN "OFF" ELSE duty_entries[first].duty_status

\* _calculate_hours_summary: round(count / 60, 2) per status, in hundredths
CalculateHoursSummary(grid_data) ==
    LET count(status) == Cardinality({m \in DOMAIN grid_data : grid_data[m] = status})
        hours(status) == (count(status) * 100 + 30) \div 60
    IN [off_duty_hours |-> hours("OFF"),
        sleeper_berth_hours |-> hours("SB"),
        driving_hours |-> hours("D"),
        on_duty_not_driving_hours |-> hours("ON")]

\* _generate_graph_grid: one cell per minute of the day; an exception raised
\* for a cell leaves the method
GenerateGraphGrid(key) ==
    LET duty_entries == SelectSeq(dutyEntries, LAMBDA e : e.eld_log = key)
        grid_data == [minute \in 0..(GridCells - 1) |->
                         GetDutyStatusForMinute(minute, duty_entries, key[2])]
    IN IF \E minute \in DOMAIN grid_data : grid_data[minute] = "TypeError"
       THEN [failed |-> "TypeError", grid_data |-> <<>>, hours_summary |-> <<>>]
       ELSE [failed |-> "", grid_data |-> grid_data,
             hours_summary |-> CalculateHoursSummary(grid_data)]

\* generate_printable_log: the same structure as daily_report; for an
\* existing log the printable and inspection formats build the graph grid,
\* and its TypeError is caught by the same `except Exception`; csv builds no
\* grid
GeneratePrintableLog(key, output_format) ==
    LET found == key \in DOMAIN eldLogs
        grid == IF found /\ output_format # "csv"
                THEN GenerateGraphGrid(key)
                ELSE [failed |-> "", grid_data |-> <<>>, hours_summary |-> <<>>]
        result == IF found /\ grid.failed = "" THEN "200" ELSE "500"
    IN /\ logLast' = LogRequest("generate_printable_log", "", key, result, 0)
       /\ printout' = [log |-> key, format |-> output_format, status |-> result,
                       grid_data |-> grid.grid_data,
                       hours_summary |-> grid.hours_summary]
       /\ UNCHANGED <<trips, eldTables, done, timelineVars, hosVars, det, report, task>>

\* the trips exist with their stops; no log has been generated yet
InitViews ==
    /\ TimelineInit /\ HOSDefault /\ LogsEmpty /\ ChecksIdle
    /\ \E plan \in {OneDayPlan, TwoDayPlan} :
         trips = [t \in Trips |-> [driver |-> TripDriver[t],
                                   current_cycle_hours |-> TripCycleHours[t],
                                   stops |-> IF t = "t2" THEN <<>> ELSE plan]]

ViewsNext ==
    \/ \E t \in Trips : GenerateLogsForTrip(t)
    \/ \E key \in LogKeys : DailyReport(key)
    \/ \E t \in TripIds : TripReport(t)
    \/ \E key \in LogKeys, f \in OutputFormats : GeneratePrintableLog(key, f)

SpecViews == InitViews /\ [][ViewsNext]_vars

\* ------------------------------------------------------------------------
\* Interval synthesis over a range of stop lists
\* ------------------------------------------------------------------------
StopTypes == {"pickup", "dropoff", "fuel", "rest", "mandatory_break", "meal"}
SynthStarts == {0, 900}
SynthDurations == {30, 479, 480}
RestartMinutes == 34 * 60
SynthGaps == {0, 60}

\* two stops in sequence_order, the departure of each being its arrival
\* plus its duration, as the route planner creates them
SynthPlans ==
    {<<Stop(a, start, start + da, da),
       Stop(b, start + da + gap, start + da + gap + db, db)>> :
        a \in StopTypes, b \in StopTypes, start \in SynthStarts,
        da \in SynthDurations, db \in SynthDurations, gap \in SynthGaps}
    \cup
    \* the 34-hour restart break of the route planner, then one more stop
    {<<Stop("mandatory_break", start, start + RestartMinutes, RestartMinutes),
       Stop(b, start + RestartMinutes + gap, start + RestartMinutes + gap + db, db)>> :
        b \in StopTypes, start \in SynthStarts, db \in SynthDurations,
        gap \in SynthGaps}

InitSynth ==
    /\ TimelineInit /\ HOSDefault /\ LogsEmpty /\ ChecksIdle
    /\ \E plan \in SynthPlans :
         trips = [t \in Trips |-> [driver |-> TripDriver[t],
                                   current_cycle_hours |-> TripCycleHours[t],
                                   stops |-> IF t = "t1" THEN plan ELSE <<>>]]

SynthNext == \E t \in {"t1", "t3"} : GenerateLogsForTrip(t)

SpecSynth == InitSynth /\ [][SynthNext]_vars

\* ------------------------------------------------------------------------
\* ELDLocationManager.record_location_interval, calls running concurrently:
\* no lock and no transaction, so each query is a step of its own
\* ------------------------------------------------------------------------
\* driving_entry = DutyStatusEntry.objects.filter(...).first()
FindDrivingEntry(p, driver) ==
    /\ procs[p].pc = "idle"
    /\ calls < MaxSampleCalls
    /\ IF OpenDrivingIds(entries, driver) = {}
       THEN \* logger.warning(...); return None
            /\ last' = Call("record_location_interval", driver, "",
                            Some(45), Some(-75), "None")
            /\ UNCHANGED procs
       ELSE \E e \in FirstIds(entries, OpenDrivingIds(entries, driver)) :
            /\ procs' = [procs EXCEPT ![p] = [pc |-> "last_interval", driver |-> driver,
                                              driving_entry |-> e, sequence |-> 0]]
            /\ UNCHANGED last
    /\ calls' = calls + 1
    /\ now' = now + 1
    /\ UNCHANGED <<entries, drivers, tracking, documents, summaries, hosVars, logVars, checkVars>>

\* last_interval = LocationTrackingEntry.objects.filter(...).first()
ReadLastInterval(p) ==
    /\ procs[p].pc = "last_interval"
    /\ procs' = [procs EXCEPT ![p].pc = "create",
                              ![p].sequence = NextSequence(tracking, procs[p].driving_entry)]
    /\ UNCHANGED <<now, entries, drivers, tracking, documents, summaries, calls, last,
                   hosVars, logVars, checkVars>>

\* Meta.unique_together = ['duty_status_entry', 'interval_sequence']
UniqueTogetherMutantNoConstraint(tr, entry_id, sequence) == TRUE

UniqueTogether(tr, entry_id, sequence) ==
    \A k \in SamplesOf(tr, entry_id) : tr[k].interval_sequence # sequence

\* LocationTrackingEntry.objects.create(...): the insert of a row whose
\* (duty_status_entry, interval_sequence) exists raises IntegrityError
CreateLocationEntry(p) ==
    /\ procs[p].pc = "create"
    /\ IF UniqueTogether(tracking, procs[p].driving_entry, procs[p].sequence)
       THEN /\ tracking' = Append(tracking,
                    [driver |-> procs[p].driver,
                     duty_status_entry |-> procs[p].driving_entry,
                     latitude |-> Some(45), longitude |-> Some(-75),
                     recorded_at |-> now,
                     interval_sequence |-> procs[p].sequence])
            /\ last' = Call("record_location_interval", procs[p].driver, "",
                            Some(45), Some(-75), "entry")
       ELSE /\ UNCHANGED tracking
            /\ last' = Call("record_location_interval", procs[p].driver, "",
                            Some(45), Some(-75), "IntegrityError")
    /\ procs' = [procs EXCEPT ![p] = Idle]
    /\ UNCHANGED <<now, entries, drivers, documents, summaries, calls,
                   hosVars, logVars, checkVars>>

\* driver d1 is Driving since tick 0, driver d2 is Off Duty
InitSamples ==
    /\ HOSDefault /\ LogsEmpty /\ NoTrips /\ ChecksIdle
    /\ now = 1
    /\ entries = <<NewEntry("d1", "D", "", Some(45), Some(-75), 0)>>
    /\ drivers = UpdateDutyStatus([d \in Drivers |->
                                      [current_duty_status |-> "OFF",
                                       last_duty_change_time |-> None]],
                                  "d1", "D", 0)
    /\ tracking = <<>>
    /\ documents = <<>>
    /\ summaries = <<>>
    /\ calls = 0
    /\ last = NoCall
    /\ procs = [p \in Procs |-> Idle]

SamplesNext ==
    \/ \E p \in Procs, d \in Drivers : FindDrivingEntry(p, d)
    \/ \E p \in Procs : ReadLastInterval(p)
    \/ \E p \in Procs : CreateLocationEntry(p)
    \/ \E s \in {"D", "ON"} : RecordDutyStatusChange("d1", s, Some(45), Some(-75))

SpecSamples == InitSamples /\ [][SamplesNext]_vars

\* ------------------------------------------------------------------------
\* trips.views.TripViewSet start_trip, complete_trip, cancel_trip and the
\* periodic task trips.tasks.update_trip_status; times in minutes
\* ------------------------------------------------------------------------
\* Trip.STATUS_CHOICES
TripStatuses == {"planning", "in_progress", "completed", "cancelled"}

\* the clock moves in steps of 12 hours
ClockStep == 12 * 60

\* start_trip: `if trip.status != 'planning'` answers 400
CanStart(trip_status) == trip_status = "planning"

\* complete_trip: `if trip.status != 'in_progress'` answers 400
CanComplete(trip_status) == trip_status = "in_progress"

\* cancel_trip: `if trip.status == 'completed'` answers 400
CanCancelMutantAlways(trip_status) == TRUE

CanCancel(trip_status) == trip_status # "completed"

\* one of the three status actions: get_object() answers 404 for an unknown
\* id; a refused action answers 400 and saves nothing
StatusAction(op, t, allowed, new_status) ==
    /\ calls < MaxStatusCalls
    /\ IF t \notin DOMAIN trips
       THEN /\ logLast' = LogRequest(op, t, <<>>, "404", 0)
            /\ UNCHANGED trips
       ELSE IF ~allowed
       THEN /\ logLast' = LogRequest(op, t, <<>>, "400", 0)
            /\ UNCHANGED trips
       ELSE /\ trips' = [trips EXCEPT ![t].status = new_status]
            /\ logLast' = LogRequest(op, t, <<>>, "200", 0)
    /\ calls' = calls + 1
    /\ UNCHANGED <<now, coreVars, hosVars, eldTables, done, checkVars>>

StartTrip(t) ==
    StatusAction("start_trip", t,
                 t \in DOMAIN trips /\ CanStart(trips[t].status), "in_progress")

CompleteTrip(t) ==
    StatusAction("complete_trip", t,
                 t \in DOMAIN trips /\ CanComplete(trips[t].status), "completed")

CancelTrip(t) ==
    StatusAction("cancel_trip", t,
                 t \in DOMAIN trips /\ CanCancel(trips[t].status), "cancelled")

\* trip.stops.filter(stop_type=...).first(), stops being in sequence_order:
\* the departure time of that stop, or None
FirstDeparture(stops, stop_type) ==
    LET ids == {i \in DOMAIN stops : stops[i].stop_type = stop_type}
    IN IF ids = {} THEN None
       ELSE Some(stops[CHOOSE i \in ids : \A j \in ids : i <= j].estimated_departure_time)

\* update_trip_status, first loop: a planning trip created more than 24
\* hours ago whose pickup stop has departed is started
AutoStarted(trip) ==
    LET dep == FirstDeparture(trip.stops, "pickup")
    IN IF /\ trip.status = "planning"
          /\ trip.created_at < now - MinutesPerDay
          /\ dep # None
          /\ Val(dep) < now
       THEN [trip EXCEPT !.status = "in_progress"]
       ELSE trip

\* update_trip_status, second loop: an in-progress trip whose dropoff stop
\* has departed is completed
AutoCompleted(trip) ==
    LET dep == FirstDeparture(trip.stops, "dropoff")
    IN IF /\ trip.status = "in_progress"
          /\ dep # None
          /\ Val(dep) < now
       THEN [trip EXCEPT !.status = "completed"]
       ELSE trip

\* the periodic task update_trip_status: the second query runs after the
\* first loop has saved its trips
UpdateTripStatus ==
    /\ calls < MaxStatusCalls
    /\ LET started == [t \in DOMAIN trips |-> AutoStarted(trips[t])]
       IN trips' = [t \in DOMAIN trips |-> AutoCompleted(started[t])]
    /\ logLast' = LogRequest("update_trip_status", "", <<>>, "done", 0)
    /\ calls' = calls + 1
    /\ UNCHANGED <<now, coreVars, hosVars, eldTables, done, checkVars>>

\* time passes
AdvanceClock ==
    /\ now < MaxStatusTicks * ClockStep
    /\ now' = now + ClockStep
    /\ UNCHANGED <<calls, coreVars, hosVars, logVars, checkVars>>

\* three trips just created, in status planning by the field default: t1
\* with the stops of one day, t2 without stops, t3 with the stops of two days
InitStatus ==
    /\ TimelineInit /\ HOSDefault /\ LogsEmpty /\ ChecksIdle
    /\ trips = [t \in Trips |->
                  [driver |-> TripDriver[t],
                   current_cycle_hours |-> TripCycleHours[t],
                   stops |-> IF t = "t1" THEN OneDayPlan
                             ELSE IF t = "t2" THEN <<>> ELSE TwoDayPlan,
                   status |-> "planning",
                   created_at |-> 0]]

StatusNext ==
    \/ \E t \in TripIds : StartTrip(t)
    \/ \E t \in TripIds : CompleteTrip(t)
    \/ \E t \in TripIds : CancelTrip(t)
    \/ UpdateTripStatus
    \/ AdvanceClock

SpecStatus == InitStatus /\ [][StatusNext]_vars

\* ------------------------------------------------------------------------
\* trips.tasks.process_trip_async, a Celery task with max_retries = 3
\* ------------------------------------------------------------------------
MaxRetries == 3

\* the tasks queued, and the id of the trip each would create
TaskIds == {"a", "b"}
TaskTrip == [a |-> "t1", b |-> "t2"]

\* what create_trip can raise: a geocoding or a routing failure
TaskErrors == {"GeocodingError", "RoutingError"}

RECURSIVE Pow2(_)
Pow2(n) == IF n = 0 THEN 1 ELSE 2 * Pow2(n - 1)

\* `if self.request.retries < self.max_retries`
ShouldRetryMutantInclusive(retries) == retries <= MaxRetries

ShouldRetry(retries) == retries < MaxRetries

\* a task message: request.retries, the countdowns of the retries asked for,
\* the exception passed to retry(), and the value returned once it ended
QueuedTask ==
    [state |-> "queued", retries |-> 0, countdowns |-> <<>>, exc |-> "",
     result |-> <<>>]

\* one execution of the task in which create_trip returns the trip:
\* TripPlanningService.create_trip creates the trip in status planning
AttemptSucceeds(id) ==
    /\ task[id].state = "queued"
    /\ trips' = (TaskTrip[id] :>
                    [driver |-> TripDriver[TaskTrip[id]],
                     current_cycle_hours |-> TripCycleHours[TaskTrip[id]],
                     stops |-> OneDayPlan,
                     status |-> "planning",
                     created_at |-> now]) @@ trips
    /\ task' = [task EXCEPT ![id].state = "done",
                            ![id].result = [success |-> TRUE,
                                            trip_id |-> TaskTrip[id],
                                            error |-> ""]]
    /\ UNCHANGED <<timelineVars, hosVars, eldTables, done, logLast,
                   det, report, printout>>

\* one execution in which create_trip raises (its transaction is rolled
\* back): the task is queued again with retries + 1 after 2 ** retries
\* seconds, or returns the failure result
AttemptFails(id, e) ==
    /\ task[id].state = "queued"
    /\ task' = IF ShouldRetry(task[id].retries)
               THEN [task EXCEPT ![id].retries = @ + 1,
                                 ![id].countdowns = Append(@, Pow2(task[id].retries)),
                                 ![id].exc = e]
               ELSE [task EXCEPT ![id].state = "done",
                                 ![id].result = [success |-> FALSE,
                                                 trip_id |-> "",
                                                 error |-> e]]
    /\ UNCHANGED <<timelineVars, hosVars, logVars, det, report, printout>>

InitTask ==
    /\ TimelineInit /\ HOSDefault /\ LogsEmpty /\ NoTrips
    /\ det = <<>> /\ report = <<>> /\ printout = <<>>
    /\ task = [id \in TaskIds |-> QueuedTask]

TaskNext ==
    \/ \E id \in TaskIds : AttemptSucceeds(id)
    \/ \E id \in TaskIds, e \in TaskErrors : AttemptFails(id, e)

SpecTask == InitTask /\ [][TaskNext]_vars

\* the worker executes every message that stays queued
SpecTaskLive ==
    /\ SpecTask
    /\ \A id \in TaskIds :
          WF_vars(AttemptSucceeds(id) \/ \E e \in TaskErrors : AttemptFails(id, e))

\* ========================================================================
\* Duty-status timeline: properties
\* ========================================================================
OpenIntervals(d) ==
    {i \in DOMAIN entries : entries[i].driver = d /\ entries[i].end_time = None}

CoordOutOfRange(latitude, longitude) ==
    \/ latitude # None /\ (Val(latitude) < -90 \/ Val(latitude) > 90)
    \/ longitude # None /\ (Val(longitude) < -180 \/ Val(longitude) > 180)

\* C1: after every record_duty_status_change call of a sequence executed one
\* at a time from a driver without intervals, each driver has at most one
\* interval with end_time = None.
C1_AtMostOneOpenInterval ==
    \A d \in Drivers : Cardinality(OpenIntervals(d)) <= 1

\* a call has ended the previously open interval and opened the next one
C1_Witness ==
    /\ last.op = "record_duty_status_change"
    /\ last.result = "ok"
    /\ \E i, j \in DOMAIN entries :
         /\ entries[i].driver = last.driver /\ entries[j].driver = last.driver
         /\ entries[i].end_time # None
         /\ entries[j].end_time = None
         /\ entries[j].previous_duty_status = entries[i].duty_status

\* C2: when record_duty_status_change calls interleave at the granularity of
\* their queries, no driver ever has two intervals with end_time = None.
C2_NoTwoOpenWhenInterleaved ==
    \A d \in Drivers :
        \A i, j \in DOMAIN entries :
            (entries[i].driver = d /\ entries[j].driver = d
             /\ entries[i].end_time = None /\ entries[j].end_time = None) => i = j

\* C3: a record_duty_status_change call whose latitude or longitude is out
\* of range fails with a validation error and changes nothing: the intervals
\* (the open one included) and the driver's cached status stay as they were.
C3_OutOfRangeRejectedEntirely ==
    [][(/\ calls' = calls + 1
        /\ last'.op = "record_duty_status_change"
        /\ CoordOutOfRange(last'.latitude, last'.longitude))
       => (/\ last'.result = "ValueError"
           /\ entries' = entries
           /\ drivers' = drivers)]_vars

\* C4: whenever a driver has an open interval, the cached
\* current_duty_status equals that interval's status.
C4_CacheEqualsOpenInterval ==
    \A d \in Drivers : \A i \in OpenIntervals(d) :
        drivers[d].current_duty_status = entries[i].duty_status

\* C9: record_location_interval for a driver without an open Driving
\* interval returns None, creates no tracking entry and changes nothing else.
C9_NoDrivingSessionIsNoOp ==
    [][(/\ calls' = calls + 1
        /\ last'.op = "record_location_interval"
        /\ ~\E i \in OpenIntervals(last'.driver) : entries[i].duty_status = "D")
       => (/\ last'.result = "None"
           /\ tracking' = tracking
           /\ entries' = entries
           /\ drivers' = drivers
           /\ documents' = documents
           /\ summaries' = summaries)]_vars

\* a sample was refused while the driver's open interval had another status
C9_Witness ==
    /\ last.op = "record_location_interval"
    /\ last.result = "None"
    /\ \E i \in OpenIntervals(last.driver) : entries[i].duty_status # "D"
    /\ \A k \in DOMAIN tracking : tracking[k].driver # last.driver

\* ========================================================================
\* HOS rule set: properties
\* ========================================================================
CycleTripped == hos.current_cycle_hours >= 7000
DriveTripped == hos.current_daily_drive_hours >= 1100
DutyTripped == hos.current_daily_duty_hours >= 1400
Inactive == ~hos.is_active

ReasonOf(c) ==
    CASE c = "cycle" -> "70-hour cycle limit reached"
      [] c = "drive" -> "11-hour daily drive limit reached"
      [] c = "duty" -> "14-hour daily duty limit reached"
      [] c = "inactive" -> "Driver is inactive"

TrippedConditions ==
    (IF CycleTripped THEN {"cycle"} ELSE {}) \cup (IF DriveTripped THEN {"drive"} ELSE {})
    \cup (IF DutyTripped THEN {"duty"} ELSE {}) \cup (IF Inactive THEN {"inactive"} ELSE {})

\* the first condition of the priority list `order` that is tripped
FirstTripped(order, tripped) ==
    order[CHOOSE i \in DOMAIN order :
            /\ order[i] \in tripped
            /\ \A j \in 1..(i - 1) : order[j] \notin tripped]

\* C5 (as amended): Driver.can_drive answers false exactly when the driver
\* is inactive or a counter is at or above its limit (70, 11, 14 hours), and
\* its reason is that of the first tripped condition in the order inactive,
\* cycle, drive, duty; HOSComplianceService.can_drive, which has no inactive
\* check, answers by the order cycle, drive, duty.
C5_CanDriveFirstTrippedInSourceOrder ==
    /\ answer.op = "Driver.can_drive" =>
         /\ answer.can_drive = (TrippedConditions = {})
         /\ TrippedConditions # {} =>
              answer.reason = ReasonOf(FirstTripped(<<"inactive", "cycle", "drive", "duty">>,
                                                    TrippedConditions))
    /\ answer.op = "HOSComplianceService.can_drive" =>
         /\ answer.can_drive = (TrippedConditions \ {"inactive"} = {})
         /\ TrippedConditions \ {"inactive"} # {} =>
              answer.reason = ReasonOf(FirstTripped(<<"cycle", "drive", "duty">>,
                                                    TrippedConditions \ {"inactive"}))

\* an inactive driver over the cycle limit was refused as inactive
C5_Witness ==
    /\ answer.op = "Driver.can_drive"
    /\ Inactive /\ CycleTripped /\ DriveTripped
    /\ ~answer.can_drive
    /\ answer.reason = "Driver is inactive"

\* C5 (as claimed): the reason is that of the first tripped condition in the
\* order cycle, drive, duty, inactive.
C5_ReasonInClaimedOrder ==
    (answer.op = "Driver.can_drive" /\ TrippedConditions # {}) =>
        /\ ~answer.can_drive
        /\ answer.reason = ReasonOf(FirstTripped(<<"cycle", "drive", "duty", "inactive">>,
                                                 TrippedConditions))

\* ========================================================================
\* Daily log generation and certification: properties
\* ========================================================================
GenerateCalled == calls' = calls + 1 /\ logLast'.op = "generate_logs_for_trip"

\* C6: a generate_logs_for_trip call on a trip for which an earlier call
\* succeeded (stops unchanged) succeeds and leaves the DailyLog rows, the
\* intervals, the violations and the audit entries exactly as they were.
C6_GenerateIsIdempotent ==
    [][(GenerateCalled /\ done[logLast'.trip] >= 1)
       => (/\ logLast'.result = "ok"
           /\ eldLogs' = eldLogs
           /\ dutyEntries' = dutyEntries
           /\ violations' = violations
           /\ audits' = audits)]_vars

\* a trip whose log carries intervals and violations was generated twice
C6_Witness ==
    /\ logLast.op = "generate_logs_for_trip"
    /\ done[logLast.trip] >= 2
    /\ \E k \in DOMAIN eldLogs :
         /\ eldLogs[k].trip = logLast.trip
         /\ \E i \in DOMAIN violations : violations[i].eld_log = k
         /\ \E i \in DOMAIN dutyEntries : dutyEntries[i].eld_log = k

\* C7: a generate_logs_for_trip call for a trip with stops on a date the
\* driver already has a DailyLog for succeeds and returns the existing log:
\* the logs that existed are kept as they are.
C7_ExistingLogIsReturned ==
    [][(/\ GenerateCalled
        /\ \E date \in {DateOf(trips[logLast'.trip].stops[i].estimated_arrival_time) :
                         i \in DOMAIN trips[logLast'.trip].stops} :
              <<trips[logLast'.trip].driver, date>> \in DOMAIN eldLogs)
       => (/\ logLast'.result = "ok"
           /\ \A k \in DOMAIN eldLogs : k \in DOMAIN eldLogs' /\ eldLogs'[k] = eldLogs[k])]_vars

\* C8: a generate_logs_for_trip call that fails (on any day, or for want of
\* stops) persists no DailyLog, interval, violation or audit entry.
C8_FailedGenerationPersistsNothing ==
    [][(GenerateCalled /\ logLast'.result # "ok")
       => (/\ eldLogs' = eldLogs
           /\ dutyEntries' = dutyEntries
           /\ violations' = violations
           /\ audits' = audits)]_vars

\* generation failed on a later day and the first day's log is not there
C8_Witness ==
    /\ logLast.op = "generate_logs_for_trip"
    /\ logLast.result = "IntegrityError"
    /\ logLast.day >= 2
    /\ <<trips[logLast.trip].driver,
         DateOf(trips[logLast.trip].stops[1].estimated_arrival_time)>> \notin DOMAIN eldLogs

\* C10: certify on a certified log and uncertify on a non-certified log fail
\* and leave is_certified, certified_at and the audit trail unchanged; a
\* successful certify sets is_certified with a certified_at time, a
\* successful uncertify clears both, and each adds exactly one audit entry.
C10_CertificationGuarded ==
    [][(/\ calls' = calls + 1
        /\ logLast'.op \in {"certify", "uncertify"}
        /\ logLast'.key \in DOMAIN eldLogs)
       => LET k == logLast'.key
              certifying == logLast'.op = "certify"
          IN IF eldLogs[k].is_certified = certifying
             THEN /\ logLast'.result = "400"
                  /\ eldLogs' = eldLogs
                  /\ audits' = audits
             ELSE /\ logLast'.result = "200"
                  /\ eldLogs'[k].is_certified = certifying
                  /\ (eldLogs'[k].certified_at # None) = certifying
                  /\ Len(audits') = Len(audits) + 1
                  /\ SubSeq(audits', 1, Len(audits)) = audits
                  /\ audits'[Len(audits')].eld_log = k
                  /\ audits'[Len(audits')].action =
                        (IF certifying THEN "CERTIFIED" ELSE "UNCERTIFIED")]_vars

\* a second certify of a certified log was refused
C10_Witness ==
    /\ logLast.op = "certify"
    /\ logLast.result = "400"
    /\ eldLogs[logLast.key].is_certified
    /\ eldLogs[logLast.key].certified_at # None
    /\ Cardinality({i \in DOMAIN audits : audits[i] = Audit(logLast.key, "CERTIFIED")}) = 1

\* ========================================================================
\* Violation detection: properties
\* ========================================================================
DetectorRan == det'.steps = det.steps + 1 /\ det'.last = "_check_violations"

\* the rows the last detector run added
NewRows == SubSeq(det'.rows, Len(det.rows) + 1, Len(det'.rows))

\* C11: a detector run adds a DAILY_DRIVE_EXCEEDED row (HIGH) iff the drive
\* total is over 11 h, a DAILY_DUTY_EXCEEDED row (HIGH) iff the on-duty total
\* is over 14 h and a CYCLE_EXCEEDED row (CRITICAL) iff the cycle hours are
\* over 70, each at most once and independently of the others, and each
\* row's duration_minutes is (value - limit) * 60; a value at its limit adds
\* no row.
C11_ThreeRulesWithExactDuration ==
    [][DetectorRan =>
        LET rows == {NewRows[k] : k \in DOMAIN NewRows}
            of(type) == {r \in rows : r.violation_type = type}
        IN /\ Cardinality(rows) = Len(NewRows)
           /\ \A r \in rows : r.violation_type \in
                 {"DAILY_DRIVE_EXCEEDED", "DAILY_DUTY_EXCEEDED", "CYCLE_EXCEEDED"}
           /\ (of("DAILY_DRIVE_EXCEEDED") # {}) = (det.total_drive_minutes > 11 * 60)
           /\ (of("DAILY_DUTY_EXCEEDED") # {}) = (det.total_on_duty_minutes > 14 * 60)
           /\ (of("CYCLE_EXCEEDED") # {}) = (det.cycle_hours_used > 70 * 100)
           /\ \A r \in of("DAILY_DRIVE_EXCEEDED") :
                 /\ r.severity = "HIGH"
                 /\ r.duration_minutes = det.total_drive_minutes - 11 * 60
           /\ \A r \in of("DAILY_DUTY_EXCEEDED") :
                 /\ r.severity = "HIGH"
                 /\ r.duration_minutes = det.total_on_duty_minutes - 14 * 60
           /\ \A r \in of("CYCLE_EXCEEDED") :
                 /\ r.severity = "CRITICAL"
                 /\ r.duration_minutes * 100 = (det.cycle_hours_used - 70 * 100) * 60]_vars

\* HOSComplianceChecker._check_rest_periods: the longest Off Duty or Sleeper
\* Berth entry of a log, by duration_minutes
LongestRest(key) ==
    LET rests == {dutyEntries[i].duration_minutes : i \in
                    {j \in DOMAIN dutyEntries :
                        /\ dutyEntries[j].eld_log = key
                        /\ dutyEntries[j].duty_status \in {"OFF", "SB"}}}
    IN IF rests = {} THEN 0 ELSE CHOOSE m \in rests : \A n \in rests : n <= m

\* C12: every generated DailyLog with driving time whose longest Off Duty or
\* Sleeper Berth interval is under 10 hours carries an INSUFFICIENT_REST
\* violation of severity MEDIUM and is not compliant.
C12_InsufficientRestFlagged ==
    \A k \in DOMAIN eldLogs :
        (eldLogs[k].total_drive_time > 0 /\ LongestRest(k) < 10 * 60)
        => /\ \E i \in DOMAIN violations :
                 /\ violations[i].eld_log = k
                 /\ violations[i].violation_type = "INSUFFICIENT_REST"
                 /\ violations[i].severity = "MEDIUM"
           /\ ~eldLogs[k].is_compliant

\* the violation rows attached to a log, in the order they were created
ViolationsOf(key) == SelectSeq(violations, LAMBDA v : v.eld_log = key)

\* C13: after generate_logs_for_trip every DailyLog is non-compliant exactly
\* when at least one violation row is attached to it, and its
\* violation_summary joins the descriptions of exactly those rows; a log
\* without violation is compliant with an empty summary.
C13_FlagAndSummaryMatchViolations ==
    \A k \in DOMAIN eldLogs :
        LET vs == ViolationsOf(k)
        IN /\ eldLogs[k].is_compliant = (vs = <<>>)
           /\ eldLogs[k].violation_summary = [i \in DOMAIN vs |-> vs[i].violation_type]

\* generation left one log with several violations and one with none
C13_Witness ==
    /\ logLast.op = "generate_logs_for_trip"
    /\ logLast.result = "ok"
    /\ \E k \in DOMAIN eldLogs :
         /\ ~eldLogs[k].is_compliant
         /\ Len(ViolationsOf(k)) >= 2
         /\ Len(eldLogs[k].violation_summary) = Len(ViolationsOf(k))
    /\ \E k \in DOMAIN eldLogs :
         /\ eldLogs[k].is_compliant
         /\ ViolationsOf(k) = <<>>
         /\ eldLogs[k].violation_summary = <<>>

\* C14: a detector run re-derives the flags: when the totals of a
\* non-compliant log were corrected so that no limit is exceeded, the run
\* sets is_compliant to true and empties violation_summary in the same step;
\* and a run on data unchanged since the previous run adds no violation row.
C14_RecomputationRederives ==
    [][DetectorRan =>
        LET exceeded == \/ det.total_drive_minutes > 11 * 60
                        \/ det.total_on_duty_minutes > 14 * 60
                        \/ det.cycle_hours_used > 70 * 100
        IN /\ det'.is_compliant = ~exceeded
           /\ (~exceeded => det'.violation_summary = <<>>)
           /\ (det.last = "_check_violations" => det'.rows = det.rows)]_vars

\* ========================================================================
\* Compliance report: properties
\* ========================================================================
\* the Driving entries a report looked at
ReportedDriving ==
    {i \in DOMAIN entries :
        /\ entries[i].driver = report.driver
        /\ entries[i].duty_status = "D"
        /\ report.start_date <= entries[i].start_time
        /\ entries[i].start_time <= report.end_date}

\* the location samples of entry i a report counted
ReportedSamples(i) ==
    Cardinality({k \in DOMAIN tracking :
                    /\ tracking[k].duty_status_entry = i
                    /\ tracking[k].driver = report.driver
                    /\ report.start_date <= tracking[k].recorded_at
                    /\ tracking[k].recorded_at <= report.end_date})

\* C15: a Driving interval requires floor(duration / 60 min) location
\* samples (60 minutes require 1, 59 require 0, 61 require 1), and the report
\* lists a missing_intervals issue for it exactly when it has fewer.
C15_MissingIntervalsIffFewerThanFloor ==
    report # <<>> =>
        \A i \in ReportedDriving :
            LET required == CalculateDuration(entries[i], now) \div 60
            IN (\E x \in report.compliance_issues :
                    x.type = "missing_intervals" /\ x.entry = i)
               <=> ReportedSamples(i) < required

\* the entries a report looked at
ReportedEntries ==
    {i \in DOMAIN entries :
        /\ entries[i].driver = report.driver
        /\ report.start_date <= entries[i].start_time
        /\ entries[i].start_time <= report.end_date}

\* C26: the report flags an interval missing_duty_location exactly when its
\* trigger requires location (duty-status change, 60-minute interval while
\* Driving, vehicle power on or off) and its latitude or longitude is null;
\* coordinates equal to 0 are present, and a manual request is never flagged.
C26_MissingLocationIffNull ==
    report # <<>> =>
        \A i \in ReportedEntries :
            LET required ==
                    \/ entries[i].location_trigger \in {"DUTY_CHANGE", "POWER_ON", "POWER_OFF"}
                    \/ /\ entries[i].location_trigger = "INTERVAL"
                       /\ entries[i].duty_status = "D"
            IN (\E x \in report.compliance_issues :
                    x.type = "missing_duty_location" /\ x.entry = i)
               <=> /\ required
                   /\ entries[i].latitude = None \/ entries[i].longitude = None

\* ========================================================================
\* Supporting documents: properties
\* ========================================================================
\* the current documents of a driver and date
CurrentDocs(docs, driver, date) ==
    {k \in DOMAIN docs : docs[k].driver = driver /\ docs[k].document_date = date}

Uploaded == calls' = calls + 1 /\ last'.op = "upload_document"

\* C16: after an upload for a driver and date that then has n documents, the
\* day's summary has document_count = n, exceeds_limit = (n > 8) and
\* has_minimum_documents exactly when one of them is a dispatch record; and a
\* compliance report covering the date lists excessive_documents for it
\* exactly when the summary's exceeds_limit is set.
C16_SummaryCountsAndLimit ==
    [][/\ Uploaded =>
            LET d == documents'[Len(documents')]
                key == <<d.driver, d.document_date>>
                ids == CurrentDocs(documents', d.driver, d.document_date)
                n == Cardinality(ids)
            IN /\ key \in DOMAIN summaries'
               /\ summaries'[key].document_count = n
               /\ summaries'[key].exceeds_limit = (n > 8)
               /\ summaries'[key].has_minimum_documents =
                     (\E k \in ids : documents'[k].document_type = "DISPATCH_RECORD")
       /\ (calls' = calls + 1 /\ last'.op = "get_compliance_report") =>
            \A key \in DOMAIN summaries :
                key[1] = report'.driver =>
                    ((\E x \in report'.compliance_issues :
                         x.type = "excessive_documents" /\ x.date = key[2])
                     <=> summaries[key].exceeds_limit)]_vars

\* nine uploads for one day, then a report that lists the day as excessive
C16_Witness ==
    /\ last.op = "get_compliance_report"
    /\ Cardinality(CurrentDocs(documents, "d1", 0)) = 9
    /\ calls = 10
    /\ summaries[<<"d1", 0>>].document_count = 9
    /\ summaries[<<"d1", 0>>].exceeds_limit
    /\ \E x \in report.compliance_issues : x.type = "excessive_documents" /\ x.date = 0

\* C17: whatever documents were added and removed, every stored summary's
\* document_count, exceeds_limit, has_minimum_documents and
\* all_documents_verified equal the values recomputed from the documents the
\* driver currently has for that date.
C17_SummaryIsProjection ==
    \A key \in DOMAIN summaries :
        LET ids == CurrentDocs(documents, key[1], key[2])
            n == Cardinality(ids)
        IN /\ summaries[key].document_count = n
           /\ summaries[key].exceeds_limit = (n > 8)
           /\ summaries[key].has_minimum_documents =
                 (\E k \in ids : documents[k].document_type = "DISPATCH_RECORD")
           /\ summaries[key].all_documents_verified =
                 (\A k \in ids : documents[k].is_verified)

\* ========================================================================
\* Report views: properties
\* ========================================================================
\* C18: a daily_report, trip_report or generate_printable_log request for an
\* id that no log or trip has gets a not-found outcome of its own: neither
\* the validation-failure outcome (400) nor the internal-failure outcome
\* (500).
C18_UnknownIdIsNotFound ==
    [][(/\ logLast'.op \in {"daily_report", "trip_report", "generate_printable_log"}
        /\ IF logLast'.op = "trip_report"
           THEN logLast'.trip \notin DOMAIN trips
           ELSE logLast'.key \notin DOMAIN eldLogs)
       => logLast'.result \notin {"400", "500"}]_vars

\* ========================================================================
\* Interval synthesis and daily totals: properties
\* ========================================================================
EntriesOf(key) == SelectSeq(dutyEntries, LAMBDA e : e.eld_log = key)

\* the minutes of the intervals of es in the given statuses, an interval's
\* minutes being end_time - start_time
RECURSIVE SpanMinutes(_, _)
SpanMinutes(es, statuses) ==
    IF es = <<>> THEN 0
    ELSE (IF Head(es).duty_status \in statuses
          THEN Val(Head(es).end_time) - Head(es).start_time ELSE 0)
         + SpanMinutes(Tail(es), statuses)

\* C19: every interval of a generated log, the initial Off Duty one included,
\* has an end_time, and the log's totals are the minutes (end_time -
\* start_time) of its Driving intervals / 60, of its Driving and On Duty
\* intervals / 60, and of its Off Duty and Sleeper Berth intervals / 60.
C19_TotalsAreIntervalSpans ==
    \A k \in DOMAIN eldLogs :
        LET es == EntriesOf(k)
        IN /\ \A i \in DOMAIN es : es[i].end_time # None
           /\ eldLogs[k].total_drive_time = HoursStored(SpanMinutes(es, {"D"}))
           /\ eldLogs[k].total_on_duty_time = HoursStored(SpanMinutes(es, {"D", "ON"}))
           /\ eldLogs[k].total_off_duty_time = HoursStored(SpanMinutes(es, {"OFF", "SB"}))

\* the entries of log key that start at time
StartingAt(key, time) ==
    {j \in DOMAIN dutyEntries :
        dutyEntries[j].eld_log = key /\ dutyEntries[j].start_time = time}

\* C20: in a generated log, a pickup or dropoff stop has a 15-minute On Duty
\* entry ending at its arrival and one On Duty entry from arrival to
\* departure; a fuel stop has one On Duty entry from arrival to departure; a
\* rest or mandatory_break stop has one entry from arrival to departure,
\* Sleeper Berth when duration_minutes >= 480 and Off Duty otherwise.
C20_StopTypeMapping ==
    \A t \in Trips :
        done[t] >= 1 =>
        \A i \in DOMAIN trips[t].stops :
            LET stop == trips[t].stops[i]
                arrival == stop.estimated_arrival_time
                departure == stop.estimated_departure_time
                key == <<trips[t].driver, DateOf(arrival)>>
                at == StartingAt(key, arrival)
                one(status) ==
                    /\ Cardinality(at) = 1
                    /\ \A j \in at :
                          /\ dutyEntries[j].duty_status = status
                          /\ dutyEntries[j].end_time = Some(departure)
            IN /\ stop.stop_type \in {"pickup", "dropoff"} =>
                    /\ one("ON")
                    /\ \E j \in StartingAt(key, arrival - 15) :
                          /\ dutyEntries[j].duty_status = "ON"
                          /\ dutyEntries[j].end_time = Some(arrival)
               /\ stop.stop_type = "fuel" => one("ON")
               /\ stop.stop_type \in {"rest", "mandatory_break"} =>
                    one(IF stop.duration_minutes >= 480 THEN "SB" ELSE "OFF")

\* a generated trip with a 479-minute rest logged Off Duty and a 480-minute
\* rest logged Sleeper Berth
C20_Witness ==
    /\ done["t1"] >= 1
    /\ \E i, j \in DOMAIN trips["t1"].stops :
         /\ trips["t1"].stops[i].stop_type = "rest"
         /\ trips["t1"].stops[i].duration_minutes = 479
         /\ trips["t1"].stops[j].stop_type \in {"rest", "mandatory_break"}
         /\ trips["t1"].stops[j].duration_minutes = 480
    /\ \E x, y \in DOMAIN dutyEntries :
         /\ dutyEntries[x].duty_status = "OFF"
         /\ dutyEntries[x].duration_minutes = 479
         /\ dutyEntries[x].end_time # None
         /\ dutyEntries[y].duty_status = "SB"
         /\ dutyEntries[y].duration_minutes = 480

\* the Driving entries from start_time to end_time, in any log
DrivingBetween(start_time, end_time) ==
    {j \in DOMAIN dutyEntries :
        /\ dutyEntries[j].duty_status = "D"
        /\ dutyEntries[j].start_time = start_time
        /\ dutyEntries[j].end_time = Some(end_time)}

\* C21: after log generation for a trip, every pair of consecutive stops (in
\* sequence order) has a Driving entry from the first stop's departure to
\* the next stop's arrival if and only if that gap is more than 0 minutes,
\* also when the two stops are on different dates.
C21_DrivingBetweenConsecutiveStops ==
    \A t \in Trips :
        done[t] >= 1 =>
        \A i \in DOMAIN trips[t].stops :
            i + 1 \in DOMAIN trips[t].stops =>
            LET departure == trips[t].stops[i].estimated_departure_time
                arrival == trips[t].stops[i + 1].estimated_arrival_time
            IN (DrivingBetween(departure, arrival) # {}) <=> (arrival - departure > 0)

\* C22: in a generated log whose first stop does not arrive at day-start the
\* first entry is an Off Duty entry that starts at day-start and ends where
\* the first stop-derived entry starts; in a log whose first stop arrives at
\* day-start no entry is synthesized before the stop-derived ones.
C22_InitialOffDutyIsClosed ==
    \A t \in Trips :
        done[t] >= 1 =>
        \A date \in {DateOf(trips[t].stops[i].estimated_arrival_time) :
                        i \in DOMAIN trips[t].stops} :
            LET key == <<trips[t].driver, date>>
                stops == StopsOn(trips[t].stops, date)
                es == EntriesOf(key)
                derived == AllStopEntries(key, stops, 1)
            IN IF stops[1].estimated_arrival_time # date * MinutesPerDay
               THEN /\ Len(es) = Len(derived) + 1
                    /\ es[1].duty_status = "OFF"
                    /\ es[1].start_time = date * MinutesPerDay
                    /\ derived # <<>> => es[1].end_time = Some(derived[1].start_time)
                    /\ es[1].end_time # None
               ELSE es = derived

\* ========================================================================
\* Graph grid: properties
\* ========================================================================
\* a printable or inspection rendering of an existing log was asked for
GridAsked ==
    /\ printout # <<>>
    /\ printout.log \in DOMAIN eldLogs
    /\ printout.format \in {"printable", "inspection"}

\* the entries of log key whose [start_time, end_time) contains time
Containing(key, time) ==
    {j \in DOMAIN dutyEntries :
        /\ dutyEntries[j].eld_log = key
        /\ dutyEntries[j].start_time <= time
        /\ dutyEntries[j].end_time # None
        /\ time < Val(dutyEntries[j].end_time)}

\* C23: the graph grid rendered for a log has exactly 1440 cells, and the
\* cell of minute m holds the status of an interval of the log whose
\* [start_time, end_time) contains day-start + m, or Off Duty when there is
\* none; every minute inside a synthesized Driving interval holds Driving.
C23_GridRendersIntervals ==
    GridAsked =>
        /\ DOMAIN printout.grid_data = 0..1439
        /\ \A m \in 0..1439 :
              LET inside == Containing(printout.log, printout.log[2] * MinutesPerDay + m)
              IN /\ IF inside = {} THEN printout.grid_data[m] = "OFF"
                    ELSE \E j \in inside : printout.grid_data[m] = dutyEntries[j].duty_status
                 /\ (\E j \in inside : dutyEntries[j].duty_status = "D")
                        => printout.grid_data[m] = "D"

\* C24: the hour summary of the grid rendered for a generated log, whose
\* intervals are those its totals were computed from, matches the stored
\* totals: driving_hours = total_drive_time, driving_hours +
\* on_duty_not_driving_hours = total_on_duty_time, off_duty_hours +
\* sleeper_berth_hours = total_off_duty_time; rendering proceeds.
C24_HourSummaryMatchesTotals ==
    GridAsked =>
        LET summary == printout.hours_summary
            log == eldLogs[printout.log]
        IN /\ printout.status = "200"
           /\ summary # <<>>
           /\ summary.driving_hours = log.total_drive_time
           /\ summary.driving_hours + summary.on_duty_not_driving_hours
                 = log.total_on_duty_time
           /\ summary.off_duty_hours + summary.sleeper_berth_hours
                 = log.total_off_duty_time

\* ========================================================================
\* Location samples: properties
\* ========================================================================
\* the samples of Driving entry e, in the order they were recorded
SampleSeq(e) == SelectSeq(tracking, LAMBDA x : x.duty_status_entry = e)

\* C25: the samples recorded for a Driving interval carry, in the order
\* they were recorded, the sequence numbers 1, 2, ..., n, each exactly once,
\* also when calls for the same driver interleave.
C25_SampleSequenceNumbers ==
    \A e \in DOMAIN entries :
        entries[e].duty_status = "D" =>
        \A i \in DOMAIN SampleSeq(e) : SampleSeq(e)[i].interval_sequence = i

\* two calls for d1 interleaved, one was refused, and the Driving interval
\* went on to its second sample
C25_Witness ==
    /\ last.op = "record_location_interval"
    /\ last.result = "IntegrityError"
    /\ \E e \in DOMAIN entries : Len(SampleSeq(e)) >= 2

\* ========================================================================
\* Interval synthesis: overlap and day partition
\* ========================================================================
\* C27: two distinct intervals of one generated log never overlap in time:
\* both are closed and one ends at or before the other starts.
C27_IntervalsDoNotOverlap ==
    \A i, j \in DOMAIN dutyEntries :
        (i # j /\ dutyEntries[i].eld_log = dutyEntries[j].eld_log) =>
            /\ dutyEntries[i].end_time # None
            /\ dutyEntries[j].end_time # None
            /\ \/ Val(dutyEntries[i].end_time) <= dutyEntries[j].start_time
               \/ Val(dutyEntries[j].end_time) <= dutyEntries[i].start_time

\* C28: every interval of a generated log starts and ends within the log's
\* calendar date, and the log's total_on_duty_time + total_off_duty_time is
\* at most 24 hours.
C28_IntervalsWithinLogDate ==
    /\ \A j \in DOMAIN dutyEntries :
          LET day_start == dutyEntries[j].eld_log[2] * MinutesPerDay
          IN /\ day_start <= dutyEntries[j].start_time
             /\ dutyEntries[j].end_time # None
             /\ Val(dutyEntries[j].end_time) <= day_start + MinutesPerDay
    /\ \A k \in DOMAIN eldLogs :
          eldLogs[k].total_on_duty_time + eldLogs[k].total_off_duty_time
              <= 24 * Hundredths

\* ========================================================================
\* Trip status: properties
\* ========================================================================
\* C29: over one operation a trip's status moves along planning ->
\* in_progress -> completed (the periodic task may take both steps in one
\* run) or from planning or in_progress to cancelled; start_trip succeeds
\* only from planning and complete_trip only from in_progress; a refused
\* action leaves every status unchanged; a completed or cancelled trip keeps
\* its status.
C29_TripStatusMachine ==
    [][/\ \A t \in DOMAIN trips : trips'[t].status \in TripStatuses
       /\ \A t \in DOMAIN trips :
            trips'[t].status # trips[t].status =>
                \/ trips[t].status = "planning"
                   /\ trips'[t].status \in {"in_progress", "cancelled"}
                \/ trips[t].status = "planning"
                   /\ trips'[t].status = "completed"
                   /\ logLast'.op = "update_trip_status"
                \/ trips[t].status = "in_progress"
                   /\ trips'[t].status \in {"completed", "cancelled"}
       /\ (logLast' # logLast /\ logLast'.op = "start_trip" /\ logLast'.result = "200")
            => /\ trips[logLast'.trip].status = "planning"
               /\ trips'[logLast'.trip].status = "in_progress"
       /\ (logLast' # logLast /\ logLast'.op = "complete_trip" /\ logLast'.result = "200")
            => /\ trips[logLast'.trip].status = "in_progress"
               /\ trips'[logLast'.trip].status = "completed"
       /\ logLast'.result \in {"400", "404"} => trips' = trips
      ]_vars

\* cancel_trip was refused on a trip the periodic task had completed
C29_Witness ==
    /\ logLast.op = "cancel_trip"
    /\ logLast.result = "400"
    /\ trips[logLast.trip].status = "completed"
    /\ \E t \in DOMAIN trips : trips[t].status = "cancelled"

\* ========================================================================
\* process_trip_async: properties
\* ========================================================================
\* task id has ended: it returned success with the trip created, or it
\* returned the failure result after exactly 3 retries; it was executed at
\* most 4 times, and retry k was asked for with a countdown of 2^(k-1) seconds
Ended(id) ==
    /\ task[id].state = "done"
    /\ task[id].retries <= 3
    /\ task[id].retries + 1 <= 4
    /\ task[id].countdowns = [k \in 1..task[id].retries |-> Pow2(k - 1)]
    /\ IF task[id].result.success
       THEN task[id].result.trip_id \in DOMAIN trips
       ELSE task[id].retries = 3

\* C30: every process_trip_async task ends: after at most 3 retries (4
\* executions, retry delays 1, 2 and 4 seconds) it has returned success =
\* true, or success = false once the retries are used up.
C30_TaskTerminates == <>(\A id \in TaskIds : Ended(id))

\* one task gave up after its third retry, the other succeeded on a retry
C30_Witness ==
    /\ task # <<>>
    /\ \E id \in TaskIds :
          /\ task[id].state = "done"
          /\ ~task[id].result.success
          /\ task[id].countdowns = <<1, 2, 4>>
    /\ \E id \in TaskIds :
          /\ task[id].state = "done"
          /\ task[id].result.success
          /\ task[id].retries >= 1

====
